---------------------------- MODULE Spec2Model ----------------------------
(***************************************************************************)
(* Model of the video-source resolve endpoint (server/api resolve handler, *)
(* performResolution, extractVideoUrls, validateUrl) of gazes-v2, of       *)
(* getAnimeDataCached of the series progress endpoint and of the           *)
(* multi-candidate resolutions of the watch page.  Each part has its own   *)
(* variables and its own specification.                                    *)
(*                                                                         *)
(* Strings are modelled structurally.  A query string (target url,         *)
(* referer) is a sequence of tokens, so that concatenation is \o.  A       *)
(* candidate media URL found in a document is a record carrying what the   *)
(* validator and the assembler read from it: wrapping quotes, length,      *)
(* scheme, hostname, port, path and media extension.  A document is        *)
(* represented by what the regular expressions of the source find in it:   *)
(* per pattern of VIDEO_URL_PATTERNS the sequence of successive exec()     *)
(* matches, and the sequence of urls the VidMoly deep pass pushes.          *)
(***************************************************************************)
EXTENDS Integers, Sequences, FiniteSets, TLC

VARIABLES
    cache,      \* the key-value cache: key -> [payload, expiresAt]
    now,        \* wall clock of the cache, in TTL ticks
    req,        \* the requests being handled, one record per handler run
    received,   \* number of requests received so far
    pages,      \* the documents the upstream hosts may answer with
    lastIndex,  \* lastIndex of the regex of each entry of VIDEO_URL_PATTERNS,
                \* as the number of matches of the scanned text it is past
    run,        \* the time line of one resolution: stage, elapsed time, timer
    cand,       \* a candidate string handed to validateUrl, and the verdict
    anime,      \* animeCache, pendingAnimeRequests, the upstream fetches
                \* and the callers of getAnimeDataCached
    player,     \* one call of a multi-candidate resolution of the watch page
    codec,      \* a target url on its way from the watch page's encoding to
                \* decodeBase64Url
    packer,     \* a packer block and the text decodeJavaScriptPacker makes
    video,      \* the watch page's player: sources, retries, error handling
    route,      \* the watch page's route and the resolutions started for it
    limiter     \* the store of RateLimiter and the calls of check

\* the variables of the resolve endpoint's request flow
resolveVars == <<cache, now, req, received, pages, lastIndex>>

\* the variables of the other parts of the program
\* the variables of the codec, the packer decoder, the player and the limiter
laterVars == <<codec, packer, video, route, limiter>>

otherVars == <<run, cand, anime, player, laterVars>>

\* what the steps of one resolution's time line leave alone
frameBudget == <<resolveVars, cand, anime, player, laterVars>>

\* what a call of validateUrl leaves alone
frameValidator == <<resolveVars, run, anime, player, laterVars>>

\* what getAnimeDataCached leaves alone
frameAnime == <<resolveVars, run, cand, player, laterVars>>

\* what a multi-candidate resolution of the watch page leaves alone
framePlayer == <<resolveVars, run, cand, anime, laterVars>>

\* what the later parts leave alone, each but its own variable
firstVars == <<resolveVars, run, cand, anime, player>>

frameCodec == <<firstVars, packer, video, route, limiter>>

framePacker == <<firstVars, codec, video, route, limiter>>

frameVideo == <<firstVars, codec, packer, route, limiter>>

frameRoute == <<firstVars, codec, packer, video, limiter>>

frameLimiter == <<firstVars, codec, packer, video, route>>

vars == <<resolveVars, otherVars>>

----------------------------------------------------------------------------
\* Bounds of the model

\* number of requests the endpoint receives in one behaviour
MaxRequests == 2

\* last tick of the clock
MaxTime == 3

\* number of distinct urls the deep-pass document carries
DeepUrls == 11

\* the time line of a resolution is followed for this many quanta
MaxQuanta == 9

\* number of upstream fetches of anime data in one behaviour
MaxFetches == 3

\* largest number of candidate urls of an episode
MaxCandidates == 4

\* longest target url of the codec, in characters
MaxChars == 3

\* longest payload of a packer block, in characters
MaxPayload == 3

\* largest count and longest dictionary of a packer block
MaxCount == 2

\* most sources in resolvedList
MaxSources == 3

\* most retries in a row that are followed for one source and error type
MaxStreak == 4

\* number of routes the watch page goes through
MaxRoutes == 2

\* largest options.maxRequests and options.windowMs of the rate limiter, the
\* window in ticks of its clock, and the last tick of that clock
MaxLimit == 2

MaxWindow == 2

MaxClock == 4

----------------------------------------------------------------------------
\* Program constants

MAX_HTML_SIZE == 2097152

PROCESSING_TIMEOUT == 3000

ALLOWED_PORTS == {80, 443, 8080, 8443}

BLOCKED_HOSTS == {"localhost", "127.0.0.1", "0.0.0.0", "::1"}

MAX_URL_LENGTH == 2048

MAX_TOTAL_URLS == 10

MAX_PER_PATTERN == 3

timeoutMs == 3000

\* the types of VIDEO_URL_PATTERNS, in table order
VIDEO_URL_PATTERNS ==
    << "direct", "video", "quoted", "javascript", "jwplayer",
       "jwplayer_sources", "obfuscated_config", "quoted_video", "api",
       "cdn", "vidmoly", "sibnet_relative" >>

NPatterns == Len(VIDEO_URL_PATTERNS)

\* REDIS_CACHE_TTL.GENERAL ("10 minutes"), in clock ticks
REDIS_CACHE_TTL_GENERAL == 2

----------------------------------------------------------------------------
\* Urls

\* port 0 stands for "no explicit port"; scheme "" for a string without scheme
MkUrl(scheme, host, port, path, ext) ==
    [ ws |-> FALSE, q |-> FALSE, len |-> 40, scheme |-> scheme, host |-> host,
      port |-> port, path |-> path, ext |-> ext ]

Https(host, path, ext) == MkUrl("https", host, 0, path, ext)

\* a path relative to the embedding page
Relative(path, ext) == MkUrl("", "", 0, path, ext)

Quoted(u) == [u EXCEPT !.q = TRUE]

\* candidate.startsWith('http')
startsWithHttp(c) == c.scheme \in {"http", "https"}

\* url.replace(/^["']|["']$/g, '') after trim()
stripQuotes(c) == [c EXCEPT !.q = FALSE]

\* candidate.trim(): the white space around the string is dropped
trim(c) == [c EXCEPT !.ws = FALSE]

\* new URL(s) succeeds only on an absolute url
urlParses(c) == c.scheme # ""

\* new URL(s).protocol without its colon: the scheme in lower case
protocolOf(c) ==
    CASE c.scheme = "HTTP" -> "http"
      [] c.scheme = "HTTPS" -> "https"
      [] c.scheme = "FTP" -> "ftp"
      [] OTHER -> c.scheme

\* new URL(s).hostname: lower case, an IPv4 address in any of its notations
\* as four decimal numbers, an IPv6 address between brackets
hostnameOf(c) ==
    CASE c.host = "LOCALHOST" -> "localhost"
      [] c.host \in {"127.1", "0x7f.0.0.1", "2130706433"} -> "127.0.0.1"
      [] c.host = "0" -> "0.0.0.0"
      [] OTHER -> c.host

\* new URL(s).port as a number, 0 for '': the default port of the scheme is
\* dropped
portOf(c) ==
    IF \/ protocolOf(c) = "http" /\ c.port = 80
       \/ protocolOf(c) = "https" /\ c.port = 443
      THEN 0
      ELSE c.port

\* characters of a hostname, by class: plain hosts match /^[a-zA-Z0-9.-]+$/
hostnameCharsOk(host) == host \notin {"", "bad_host", "::1", "[::1]"}

\* validateUrl without the test of the blocked hosts
validateUrl_NoBlockedHosts(candidate) ==
    LET cleanUrl == stripQuotes(trim(candidate)) IN
    IF cleanUrl.len = 0 \/ cleanUrl.len > MAX_URL_LENGTH
      THEN [isValid |-> FALSE, url |-> cleanUrl, error |-> "URL too long or empty"]
    ELSE IF ~urlParses(cleanUrl)
      THEN [isValid |-> FALSE, url |-> cleanUrl, error |-> "Invalid URL"]
    ELSE IF protocolOf(cleanUrl) \notin {"https", "http"}
      THEN [isValid |-> FALSE, url |-> cleanUrl, error |-> "Only HTTP and HTTPS URLs allowed"]
    ELSE IF portOf(cleanUrl) # 0 /\ portOf(cleanUrl) \notin ALLOWED_PORTS
      THEN [isValid |-> FALSE, url |-> cleanUrl, error |-> "Port not allowed"]
    ELSE IF ~hostnameCharsOk(hostnameOf(cleanUrl))
      THEN [isValid |-> FALSE, url |-> cleanUrl, error |-> "Invalid hostname characters"]
    ELSE [isValid |-> TRUE, url |-> cleanUrl, error |-> ""]

validateUrl(candidate) ==
    LET cleanUrl == stripQuotes(trim(candidate)) IN
    IF cleanUrl.len = 0 \/ cleanUrl.len > MAX_URL_LENGTH
      THEN [isValid |-> FALSE, url |-> cleanUrl, error |-> "URL too long or empty"]
    ELSE IF ~urlParses(cleanUrl)
      THEN [isValid |-> FALSE, url |-> cleanUrl, error |-> "Invalid URL"]
    ELSE IF protocolOf(cleanUrl) \notin {"https", "http"}
      THEN [isValid |-> FALSE, url |-> cleanUrl, error |-> "Only HTTP and HTTPS URLs allowed"]
    ELSE IF hostnameOf(cleanUrl) \in BLOCKED_HOSTS
      THEN [isValid |-> FALSE, url |-> cleanUrl, error |-> "Blocked hostname"]
    ELSE IF portOf(cleanUrl) # 0 /\ portOf(cleanUrl) \notin ALLOWED_PORTS
      THEN [isValid |-> FALSE, url |-> cleanUrl, error |-> "Port not allowed"]
    ELSE IF ~hostnameCharsOk(hostnameOf(cleanUrl))
      THEN [isValid |-> FALSE, url |-> cleanUrl, error |-> "Invalid hostname characters"]
    ELSE [isValid |-> TRUE, url |-> cleanUrl, error |-> ""]

----------------------------------------------------------------------------
\* Documents

\* url.match(/(\d+p|\d+x\d+|hd|fhd|uhd|4k|8k)/i), on the path classes used here
parseQuality(u) == IF u.path = "/v720p" THEN "720p" ELSE "none"

\* url.includes('.m3u8') || url.includes('.mp4')
hasMediaExt(u) == u.ext \in {"m3u8", "mp4"}

NoMatches == [i \in 1..NPatterns |-> << >>]

\* a document: its length, whether it mentions vidmoly, the raw strings the
\* deep-pass expressions capture, the successive matches (capture group or
\* whole match) of each pattern, and whether scanning it raises an exception.
\* The matches are those found in the text extractVideoUrls scans: the first
\* MAX_HTML_SIZE characters of the body followed by what
\* decodeJavaScriptPacker appends to them.
MkDoc(len, vidmoly, deep, matches, throws) ==
    [ len |-> len, vidmoly |-> vidmoly, deep |-> deep, matches |-> matches,
      throws |-> throws ]

\* the i-th of a family of distinct media urls on one host
NthUrl(i) == Https("cdn.example", "/v" \o ToString(i), "mp4")

\* sources: [{file: "https://cdn.example/v.m3u8"}]
DocOne ==
    LET u == Https("cdn.example", "/v", "m3u8") IN
    MkDoc(120, FALSE, << >>,
          [i \in 1..NPatterns |->
             IF i \in {1, 3, 5, 6, 7, 8} THEN <<u>> ELSE << >>], FALSE)

\* two .m3u8 and one .mp4 on different providers, a loopback url, a quoted
\* duplicate, a relative jwplayer file and a sibnet relative path
DocMixed ==
    LET a == Https("cdn.example", "/a", "m3u8")
        b == Https("video.sibnet.ru", "/b", "m3u8")
        c == Https("vidmoly.to", "/v720p", "mp4")
        l == MkUrl("http", "localhost", 0, "/x", "mp4")
        p == MkUrl("https", "cdn.example", 9999, "/p", "mp4")
    IN  MkDoc(900, FALSE, << >>,
          [i \in 1..NPatterns |->
             CASE i = 1 -> <<a, l, b, c>>
               [] i = 3 -> <<Quoted(a), p>>
               [] i = 7 -> <<Relative("/r", "m3u8"), Relative("/cfg", "")>>
               [] i = 12 -> <<Relative("/v/1", "mp4")>>
               [] OTHER -> << >>], FALSE)

\* many distinct urls: four per pattern in the first four patterns
DocMany ==
    MkDoc(5000, FALSE, << >>,
          [i \in 1..NPatterns |->
             IF i <= 4 THEN [j \in 1..4 |-> NthUrl(10 * i + j)] ELSE << >>],
          FALSE)

\* a vidmoly page: the deep pass finds DeepUrls distinct urls (one twice, one
\* without a media extension), the patterns find two more
DocVidmoly ==
    MkDoc(7000, TRUE,
          [j \in 1..DeepUrls |-> NthUrl(j)]
             \o <<NthUrl(1), Https("vidmoly.to", "/e", "")>>,
          [i \in 1..NPatterns |->
             IF i = 1 THEN <<NthUrl(1), NthUrl(101)>>
             ELSE IF i = 11 THEN <<Https("vidmoly.to", "/w", "mp4")>>
             ELSE << >>], FALSE)

DocNone == MkDoc(300, FALSE, << >>, NoMatches, FALSE)

DocEmpty == MkDoc(0, FALSE, << >>, NoMatches, FALSE)

\* a document on which the scan raises an exception
DocThrows == MkDoc(400, TRUE, <<NthUrl(1)>>, NoMatches, TRUE)

Docs == <<DocOne, DocNone, DocThrows, DocMixed, DocMany, DocVidmoly, DocEmpty>>

DocIds == 1..Len(Docs)

\* the documents of the specification of the request flow
CoreDocIds == {1, 2, 3}

----------------------------------------------------------------------------
\* Query strings: sequences of tokens; the first token of a url carries its
\* scheme, host and path

TGood == <<"https://host.example/embed/abc">>

TLoop == <<"http://127.0.0.1/admin">>

TFtp == <<"ftp://files.example/a">>

\* what base64-decoding a string that encodes no url gives
TGarbage == <<"garbage">>

RefGood == <<"https%3A%2F%2Fanime.example%2F">>

\* a referer on which decodeURIComponent throws URIError
RefMalformed == <<"%E0%A4%A">>

\* new URL(s) of a query string
parseUrl(s) ==
    IF s = << >> THEN Relative("", "")
    ELSE CASE Head(s) = "https://host.example/embed/abc" ->
                  Https("host.example", "/embed/abc", "")
           [] Head(s) = "http://127.0.0.1/admin" ->
                  MkUrl("http", "127.0.0.1", 0, "/admin", "")
           [] Head(s) = "ftp://files.example/a" ->
                  MkUrl("ftp", "files.example", 0, "/a", "")
           [] OTHER -> Relative("", "")

\* new URL(u).origin
originOf(u) == [scheme |-> u.scheme, host |-> u.host, port |-> u.port]

\* originalUrl.replace(/\/embed\/.*$/, '') followed by the candidate
joinBase(originalUrl, c) ==
    LET base == parseUrl(originalUrl)
        basePath == IF base.path = "/embed/abc" THEN "" ELSE base.path
    IN  [c EXCEPT !.scheme = base.scheme, !.host = base.host,
                  !.port = base.port, !.path = basePath \o c.path]

\* `https://video.sibnet.ru${...}${candidate}`
joinSibnet(c) ==
    [c EXCEPT !.scheme = "https", !.host = "video.sibnet.ru", !.port = 0]

----------------------------------------------------------------------------
\* Extraction

RECURSIVE vidmolyFilter(_)
vidmolyFilter(raw) ==
    IF raw = << >> THEN << >>
    ELSE LET url == Head(raw) IN
         IF hasMediaExt(url) /\ validateUrl(url).isValid
           THEN <<url>> \o vidmolyFilter(Tail(raw))
           ELSE vidmolyFilter(Tail(raw))

\* the urls the deep pass pushes, in order (the raw captured strings)
analyzeVidMolyJavaScript(doc) == vidmolyFilter(doc.deep)

Range(seq) == {seq[i] : i \in 1..Len(seq)}

RECURSIVE pushUnique(_, _)
pushUnique(urls, more) ==
    IF more = << >> THEN urls
    ELSE IF Head(more) \in Range(urls)
           THEN pushUnique(urls, Tail(more))
           ELSE pushUnique(Append(urls, Head(more)), Tail(more))

\* the candidate a match of pattern `type` is turned into before validation
processCandidate(type, candidate, originalUrl) ==
    IF type = "sibnet_relative" /\ ~startsWithHttp(candidate)
      THEN joinSibnet(candidate)
    ELSE IF type \in {"obfuscated_config", "quoted_video"}
            /\ ~startsWithHttp(candidate)
            /\ candidate.ext \in {"m3u8", "mp4", "txt"}
      THEN joinBase(originalUrl, candidate)
    ELSE candidate

\* the while loop over the matches of one pattern, from match k on
RECURSIVE scanPattern(_, _, _, _, _, _)
scanPattern(type, matches, k, originalUrl, urls, patternUrlsFound) ==
    IF k > Len(matches) \/ patternUrlsFound >= MAX_PER_PATTERN THEN urls
    ELSE LET validation ==
                 validateUrl(processCandidate(type, matches[k], originalUrl))
             take == validation.isValid /\ validation.url \notin Range(urls)
             urls2 == IF take THEN Append(urls, validation.url) ELSE urls
             found2 == IF take THEN patternUrlsFound + 1 ELSE patternUrlsFound
         IN  IF Len(urls2) >= MAX_TOTAL_URLS THEN urls2
             ELSE scanPattern(type, matches, k + 1, originalUrl, urls2, found2)

\* where that while loop leaves the lastIndex of the pattern: 0 once exec
\* has returned null, else past the last match exec returned
RECURSIVE scanEnd(_, _, _, _, _, _)
scanEnd(type, matches, k, originalUrl, urls, patternUrlsFound) ==
    IF k > Len(matches) THEN 0
    ELSE IF patternUrlsFound >= MAX_PER_PATTERN THEN k
    ELSE LET validation ==
                 validateUrl(processCandidate(type, matches[k], originalUrl))
             take == validation.isValid /\ validation.url \notin Range(urls)
             urls2 == IF take THEN Append(urls, validation.url) ELSE urls
             found2 == IF take THEN patternUrlsFound + 1 ELSE patternUrlsFound
         IN  IF Len(urls2) >= MAX_TOTAL_URLS THEN k
             ELSE scanEnd(type, matches, k + 1, originalUrl, urls2, found2)

\* startOfScan without the reset: the scan goes on from where the last scan
\* with this regex stopped
startOfScan_Kept(i) == lastIndex[i]

\* `pattern.regex.lastIndex = 0`: the number of matches the scan with
\* pattern i skips
startOfScan(i) == 0

\* the for loop over VIDEO_URL_PATTERNS from pattern i on; the clock passes
\* PROCESSING_TIMEOUT when pattern `stop` is about to be scanned
RECURSIVE scanPatterns(_, _, _, _, _)
scanPatterns(doc, i, stop, originalUrl, urls) ==
    IF i > NPatterns \/ i >= stop \/ Len(urls) >= MAX_TOTAL_URLS THEN urls
    ELSE scanPatterns(doc, i + 1, stop, originalUrl,
             scanPattern(VIDEO_URL_PATTERNS[i], doc.matches[i],
                         startOfScan(i) + 1, originalUrl, urls, 0))

\* the lastIndex of every pattern after that for loop, li before it
RECURSIVE scanEnds(_, _, _, _, _, _)
scanEnds(doc, i, stop, originalUrl, urls, li) ==
    IF i > NPatterns \/ i >= stop \/ Len(urls) >= MAX_TOTAL_URLS THEN li
    ELSE scanEnds(doc, i + 1, stop, originalUrl,
             scanPattern(VIDEO_URL_PATTERNS[i], doc.matches[i],
                         startOfScan(i) + 1, originalUrl, urls, 0),
             [li EXCEPT ![i] =
                 scanEnd(VIDEO_URL_PATTERNS[i], doc.matches[i],
                         startOfScan(i) + 1, originalUrl, urls, 0)])

extractVideoUrls(doc, originalUrl, stop) ==
    IF doc.len = 0 THEN << >>
    ELSE IF doc.throws THEN << >>
    ELSE LET vidmolyUrls ==
                 IF doc.vidmoly THEN analyzeVidMolyJavaScript(doc) ELSE << >>
         IN  scanPatterns(doc, 1, stop, originalUrl,
                          pushUnique(<< >>, vidmolyUrls))

\* the lastIndex of every pattern when extractVideoUrls returns
lastIndexAfter(doc, originalUrl, stop) ==
    IF doc.len = 0 \/ doc.throws THEN lastIndex
    ELSE LET vidmolyUrls ==
                 IF doc.vidmoly THEN analyzeVidMolyJavaScript(doc) ELSE << >>
         IN  scanEnds(doc, 1, stop, originalUrl,
                      pushUnique(<< >>, vidmolyUrls), lastIndex)

----------------------------------------------------------------------------
\* Provider ranking and response assembly

NoProvider == [hostname |-> "", reliability |-> 0, description |-> "none"]

\* getProviderInfo of server/utils/videoProviders: a static table looked up
\* by hostname; NoProvider stands for null
getProviderInfo(u) ==
    CASE u.host = "video.sibnet.ru" ->
             [hostname |-> u.host, reliability |-> 9, description |-> "SibNet"]
      [] u.host = "vidmoly.to" ->
             [hostname |-> u.host, reliability |-> 5, description |-> "VidMoly"]
      [] OTHER -> NoProvider

\* `/api/proxy?url=${...}&referer=${...}&origin=${...}&rewrite=1`
proxyUrl(u, referer, origin) ==
    [proxy |-> "/api/proxy", url |-> u, referer |-> referer,
     origin |-> origin, rewrite |-> 1]

videoTypeOf(u) ==
    CASE u.ext = "m3u8" -> "hls"
      [] u.ext = "mp4" -> "mp4"
      [] u.ext = "webm" -> "webm"
      [] OTHER -> "unknown"

\* the entry uniqueUrls.set stores for one extracted url
formatSource(u, url) ==
    [ type |-> videoTypeOf(u), url |-> u, directUrl |-> u,
      proxiedUrl |-> proxyUrl(u, url, originOf(parseUrl(url))),
      quality |-> parseQuality(u), provider |-> getProviderInfo(u) ]

\* insertSorted placing a source before the sources of equal reliability
RECURSIVE insertSorted_TiesFirst(_, _)
insertSorted_TiesFirst(sorted, s) ==
    IF sorted = << >> THEN <<s>>
    ELSE IF Head(sorted).provider.reliability > s.provider.reliability
           THEN <<Head(sorted)>> \o insertSorted_TiesFirst(Tail(sorted), s)
           ELSE <<s>> \o sorted

\* Array.prototype.sort with (a, b) => reliabilityB - reliabilityA: stable,
\* descending
RECURSIVE insertSorted(_, _)
insertSorted(sorted, s) ==
    IF sorted = << >> THEN <<s>>
    ELSE IF Head(sorted).provider.reliability >= s.provider.reliability
           THEN <<Head(sorted)>> \o insertSorted(Tail(sorted), s)
           ELSE <<s>> \o sorted

RECURSIVE sortByReliability(_)
sortByReliability(list) ==
    IF list = << >> THEN << >>
    ELSE insertSorted(sortByReliability(SubSeq(list, 1, Len(list) - 1)),
                      list[Len(list)])

\* finalUrls.map(urlData => ({...urlData, url: `/api/proxy?...`}))
toProxied(s, url, referer) ==
    [s EXCEPT !.url = proxyUrl(s.url, IF referer # << >> THEN referer ELSE url,
                               originOf(s.url))]

Msg(text, detail) ==
    [text |-> text, detail |-> detail, bytes |-> 0, found |-> 0]

Failure(text, detail) ==
    [ok |-> FALSE, urls |-> << >>, message |-> Msg(text, detail)]

\* performResolution from the read body to its return value
assembleResult(doc, url, referer, stop) ==
    LET extractedUrls == extractVideoUrls(doc, url, stop)
        uniqueUrls == pushUnique(<< >>, extractedUrls)
        formatted == [i \in 1..Len(uniqueUrls) |->
                         formatSource(uniqueUrls[i], url)]
        finalUrls == sortByReliability(formatted)
        proxiedUrls == [i \in 1..Len(finalUrls) |->
                           toProxied(finalUrls[i], url, referer)]
    IN  [ ok |-> TRUE, urls |-> proxiedUrls,
          message |-> [text |-> "Fetched bytes. Found unique video URLs",
                       detail |-> "", bytes |-> doc.len,
                       found |-> Len(finalUrls)] ]

----------------------------------------------------------------------------
\* The cache collaborator (server/utils/redis-cache): get/set with a TTL

NoResult == [none |-> TRUE]

\* cache.get(key) at time t: the payload, or NoResult once the entry expired
cacheGet(c, key, t) ==
    IF key \in DOMAIN c /\ t < c[key].expiresAt THEN c[key].payload
    ELSE NoResult

\* cache.set(key, payload, ttl) at time t
cacheSet(c, key, payload, ttl, t) ==
    [k \in DOMAIN c \cup {key} |->
        IF k = key
          THEN [payload |-> payload, storedAt |-> t, expiresAt |-> t + ttl]
          ELSE c[k]]

----------------------------------------------------------------------------
\* Requests

NoParam == << >>

\* the client's encoding of a target url, as a query string
encodeBase64Url(s) == <<"b64:">> \o s

\* decodeBase64Url: the encoded string, or the bytes a non-encoding decodes
\* to; when decoding throws, the catch block returns the input
decodeBase64Url(input) ==
    IF input # << >> /\ Head(input) = "b64:" THEN Tail(input)
    ELSE IF input = <<"!throws">> THEN input
    ELSE TGarbage

MkQuery(method, u64, url, referer) ==
    [method |-> method, u64 |-> u64, url |-> url, referer |-> referer]

Queries ==
    { MkQuery("GET", encodeBase64Url(TGood), NoParam, NoParam),
      MkQuery("GET", NoParam, TGood, RefMalformed),
      MkQuery("GET", NoParam, TLoop, RefGood),
      MkQuery("GET", NoParam, TFtp, NoParam),
      MkQuery("GET", <<"!garbage">>, NoParam, NoParam),
      MkQuery("GET", <<"!throws">>, NoParam, NoParam),
      MkQuery("GET", NoParam, NoParam, NoParam),
      MkQuery("OPTIONS", NoParam, NoParam, NoParam) }

Statuses == {200, 404}

statusText(status) == IF status = 200 THEN "OK" ELSE "Not Found"

\* the pattern index at which Date.now() - startTime is first seen above
\* PROCESSING_TIMEOUT (NPatterns + 1: never)
StopPoints == 1..(NPatterns + 1)

\* the handler runs that can be in progress at the same time
Slots == {"h1", "h2"}

IdleRequest ==
    [ pc |-> "idle", query |-> MkQuery("", NoParam, NoParam, NoParam),
      url |-> << >>, referer |-> << >>, key |-> << >>, doc |-> 0,
      resolution |-> NoResult, result |-> NoResult,
      \* what the request did
      stale |-> FALSE, hit |-> FALSE, fetches |-> 0, issued |-> FALSE,
      aborted |-> FALSE, status |-> 0, bodyRead |-> FALSE,
      extracted |-> FALSE, cut |-> FALSE, sets |-> 0, failed |-> "",
      errmsg |-> "", escaped |-> FALSE ]

\* `resolve:${base64url(url + (referer || ''))}`
cacheKeyOf(url, referer) == <<"resolve:">> \o url \o referer

\* handlerCatch rethrowing instead of answering
handlerCatch_Rethrow(rq, step, message) ==
    [rq EXCEPT !.pc = "done", !.failed = step, !.errmsg = message,
               !.escaped = TRUE]

\* the handler's catch block
handlerCatch(rq, step, message) ==
    [rq EXCEPT !.pc = "done", !.failed = step, !.errmsg = message,
               !.result = Failure("Error: ", message)]

\* the catch block of performResolution, for an error that is no AbortError;
\* a failed resolution is returned by the handler as it is
fetchCatch(rq, step, message) ==
    [rq EXCEPT !.pc = "done", !.failed = step, !.errmsg = message,
               !.result = Failure("Network error: ", message)]

\* the same catch block, for an AbortError
abortCatch(rq, message) ==
    [rq EXCEPT !.pc = "done", !.failed = "timeout", !.errmsg = message,
               !.result = Failure("Request timed out after ",
                   ToString(timeoutMs \div 1000) \o " seconds")]

\* shouldCache without the test of urls.length
shouldCache_OkOnly(resolutionResult) == resolutionResult.ok

\* the condition under which the handler writes a resolution to the cache
shouldCache(resolutionResult) ==
    resolutionResult.ok /\ Len(resolutionResult.urls) > 0

\* fetch() issues an HTTP request only for an http or https url it can
\* parse; on any other string it rejects with a TypeError
fetchable(url) == parseUrl(url).scheme \in {"http", "https"}

\* the anime ids requested and the callers of getAnimeDataCached (one
\* series of a progress request each)
AnimeIds == {"a1", "a2"}

Callers == {"c1", "c2", "c3"}

\* animeCache.get(id) of an id never stored
NoData == "undefined"

NoCall ==
    [ pc |-> "idle", id |-> "", awaits |-> 0, issued |-> FALSE,
      during |-> {}, outcome |-> [kind |-> "", value |-> ""] ]

\* empty caches, no request in flight, no caller
NoAnime ==
    [ animeCache |-> [id \in AnimeIds |-> NoData],
      pendingAnimeRequests |-> [id \in AnimeIds |-> 0],
      fetches |-> << >>,
      calls |-> [c \in Callers |-> NoCall] ]

\* the multi-candidate resolutions of the watch page
ResolveFns ==
    { "resolveSourcesImmediately", "resolveSourcesForLanguage",
      "resolveEpisodeInBackground" }

\* a candidate no $fetch was called for
NoAttempt == [state |-> "none", timeout |-> 0, tries |-> 0, ending |-> ""]

\* a call of fn with n candidate urls, sorted, before its first $fetch;
\* playUrl, result and every index name a candidate by its place, 0 is none
NewPlayer(fn, n) ==
    [ fn |-> fn, candidates |-> n, pc |-> "called",
      promises |-> [i \in 1..n |-> NoAttempt],
      fallback |-> [i \in 1..n |-> NoAttempt],
      playUrl |-> 0, result |-> 0, outcome |-> "" ]

NoPlayer == NewPlayer("resolveSourcesImmediately", 1)

\* no call of validateUrl
NoCandidate ==
    [ input |-> Relative("", ""), called |-> FALSE,
      verdict |-> [isValid |-> FALSE, url |-> Relative("", ""),
                   error |-> "not called"] ]

\* a resolution at the call of fetch: the timer is armed, no time has passed
NoRun ==
    [ phase |-> "fetch", elapsed |-> 0, armed |-> TRUE, extractStart |-> 0,
      startTime |-> 0, i |-> 1, outcome |-> "" ]

\* a target url of the watch page before it is encoded
NewCodec(targetUrl) ==
    [ phase |-> "page", targetUrl |-> targetUrl, u64 |-> << >>,
      padded |-> << >>, url |-> << >> ]

\* no string on its way to decodeBase64Url
NoCodec == NewCodec(<< >>)

\* a match of packerPattern: match[1], parseInt(match[2]),
\* parseInt(match[3]) and match[4].split('|')
NewPacker(packed, radix, count, keywords) ==
    [ phase |-> "matched", packed |-> packed, radix |-> radix,
      count |-> count, keywords |-> keywords, decoded |-> << >>,
      appended |-> FALSE ]

\* no packer block
NoPacker == NewPacker(<< >>, 10, 0, << >>)

\* the player after setupVideo has run for the first of n sources, those of
\* hls being .m3u8 urls; streak counts the retries in a row of the current
\* source for the error type streakType
NewVideo(n, hls) ==
    [ phase |-> "loading", sources |-> n, hls |-> hls,
      currentSourceIndex |-> 0, currentSourceRetries |-> 0,
      lastErrorType |-> "", retryTimeout |-> FALSE,
      hlsLoadTimeout |-> 0 \in hls, videoError |-> "",
      streak |-> 0, streakType |-> "" ]

\* no source set up
NoVideo == [NewVideo(0, {}) EXCEPT !.phase = "idle"]

\* playUrl.value = ''
NoUrl == [url |-> << >>]

\* the watch page on its first route before resolveEpisode has called
\* resolveSourcesImmediately: calls are the calls of
\* resolveSourcesImmediately made so far, awaiting the number of runs of
\* resolveEpisode at `await Promise.all(languagePromises)`
NoRoute ==
    [ current |-> 1, lastResolvedParams |-> 1, resolveTimeout |-> FALSE,
      awaiting |-> 0, calls |-> << >>, playUrl |-> NoUrl,
      resolvedList |-> << >>, currentSourceIndex |-> 0,
      resolvedSourcesByLanguage |-> << >>, resolveError |-> "" ]

\* the clients and the routes that are rate limited
Identifiers == {"ip1", "ip2"}

LimitedRoutes == {"/api/watch"}

\* `${identifier}:${route}`
getKey(identifier, path) == <<identifier, ":", path>>

LimiterKeys == {getKey(i, r) : i \in Identifiers, r \in LimitedRoutes}

\* this.store.get(key) of a key that is not stored
NoEntry == [none |-> TRUE]

\* a RateLimiter just constructed, with the options its calls are made with;
\* allowedInWindow counts the calls allowed since the window of a key
\* started, last is the latest call of check
NewLimiter(maxRequests, windowMs) ==
    [ now |-> 0, store |-> [k \in LimiterKeys |-> NoEntry],
      maxRequests |-> maxRequests, windowMs |-> windowMs,
      allowedInWindow |-> [k \in LimiterKeys |-> 0],
      last |-> [called |-> FALSE, key |-> << >>, before |-> NoEntry,
                after |-> NoEntry,
                result |-> [allowed |-> FALSE, remaining |-> 0,
                            resetTime |-> 0]] ]

\* an empty store
NoLimiter == NewLimiter(1, 1)

LaterIdle ==
    /\ codec = NoCodec
    /\ packer = NoPacker
    /\ video = NoVideo
    /\ route = NoRoute
    /\ limiter = NoLimiter

\* the state of the first parts while a later part is followed
FirstIdle ==
    /\ run = NoRun
    /\ cand = NoCandidate
    /\ anime = NoAnime
    /\ player = NoPlayer

\* the state of the other parts of the program while the endpoint is followed
OthersIdle ==
    /\ FirstIdle
    /\ LaterIdle

----------------------------------------------------------------------------
\* The resolve handler, one action per stretch between two awaits

Init ==
    /\ cache = << >>
    /\ now = 0
    /\ req = [r \in Slots |-> IdleRequest]
    /\ received = 0
    /\ pages = CoreDocIds
    /\ lastIndex = [i \in 1..NPatterns |-> 0]
    /\ OthersIdle

\* Receive looking up the cache whatever the parameters are
Receive_NoParamCheck(r, q) ==
    /\ received < MaxRequests
    /\ req[r].pc = "idle"
    /\ IF r = "h1" THEN TRUE ELSE req["h1"].pc # "idle"
    /\ received' = received + 1
    /\ LET url == IF q.u64 # NoParam THEN decodeBase64Url(q.u64) ELSE q.url
       IN  req' = [req EXCEPT ![r] =
              [@ EXCEPT !.query = q, !.pc = "get", !.url = url,
                        !.referer = q.referer,
                        !.key = cacheKeyOf(url, q.referer)]]
    /\ UNCHANGED <<cache, now, pages, lastIndex, otherVars>>

\* handler entry up to the call of cache.get
Receive(r, q) ==
    /\ received < MaxRequests
    /\ req[r].pc = "idle"
    /\ IF r = "h1" THEN TRUE ELSE req["h1"].pc # "idle"
    /\ received' = received + 1
    /\ LET url == IF q.u64 # NoParam THEN decodeBase64Url(q.u64)
                  ELSE IF q.url # NoParam THEN q.url
                  ELSE << >>
           rq == [req[r] EXCEPT !.query = q]
       IN  req' = [req EXCEPT ![r] =
              IF q.method = "OPTIONS"
                THEN [rq EXCEPT !.pc = "done",
                                !.result = [status |-> 204, body |-> ""]]
              ELSE IF url = << >>
                THEN [rq EXCEPT !.pc = "done",
                        !.result = Failure("Missing url or u64 parameter", "")]
              ELSE [rq EXCEPT !.pc = "get", !.url = url,
                              !.referer = q.referer,
                              !.key = cacheKeyOf(url, q.referer)]]
    /\ UNCHANGED <<cache, now, pages, lastIndex, otherVars>>

\* performResolution from its entry to the call of fetch
startResolution(rq) ==
    IF rq.referer = RefMalformed
      THEN handlerCatch(rq, "referer", "URI malformed")
    ELSE IF ~fetchable(rq.url)
      THEN fetchCatch([rq EXCEPT !.fetches = @ + 1], "fetch", "fetch failed")
    ELSE [rq EXCEPT !.pc = "fetch", !.fetches = @ + 1, !.issued = TRUE]

\* CacheGetReturn resolving again although the cache holds the result
CacheGetReturn_IgnoreHit(r) ==
    /\ req[r].pc = "get"
    /\ req' = [req EXCEPT ![r] = startResolution(req[r])]
    /\ UNCHANGED <<cache, now, received, pages, lastIndex, otherVars>>

\* cache.get returns: a hit is returned as it is, a miss starts the resolution
CacheGetReturn(r) ==
    /\ req[r].pc = "get"
    /\ LET cachedResult == cacheGet(cache, req[r].key, now)
           rq == [req[r] EXCEPT
                     !.stale =
                        /\ req[r].key \in DOMAIN cache
                        /\ now >= cache[req[r].key].storedAt
                                    + REDIS_CACHE_TTL_GENERAL]
       IN  req' = [req EXCEPT ![r] =
                     IF cachedResult # NoResult
                       THEN [rq EXCEPT !.pc = "done", !.hit = TRUE,
                                       !.result = cachedResult]
                       ELSE startResolution(rq)]
    /\ UNCHANGED <<cache, now, received, pages, lastIndex, otherVars>>

\* cache.get rejects
CacheGetFail(r) ==
    /\ req[r].pc = "get"
    /\ req' = [req EXCEPT ![r] =
                  handlerCatch(req[r], "cache.get", "cache unavailable")]
    /\ UNCHANGED <<cache, now, received, pages, lastIndex, otherVars>>

\* FetchRespond without the test of response.ok
FetchRespond_IgnoreStatus(r, status, d) ==
    /\ req[r].pc = "fetch"
    /\ req' = [req EXCEPT ![r] =
                  [@ EXCEPT !.pc = "body", !.status = status, !.doc = d]]
    /\ UNCHANGED <<cache, now, received, pages, lastIndex, otherVars>>

\* the upstream answers before the timer fires
FetchRespond(r, status, d) ==
    /\ req[r].pc = "fetch"
    /\ req' = [req EXCEPT ![r] =
          IF status \notin 200..299
            THEN [@ EXCEPT !.pc = "done", !.status = status,
                    !.result = Failure("Failed to fetch: ",
                        ToString(status) \o " " \o statusText(status))]
          ELSE [@ EXCEPT !.pc = "body", !.status = status, !.doc = d]]
    /\ UNCHANGED <<cache, now, received, pages, lastIndex, otherVars>>

\* FetchTimeout fetching the same url again after the abort
FetchTimeout_Retry(r) ==
    /\ req[r].pc = "fetch"
    /\ req[r].fetches < 2
    /\ req' = [req EXCEPT ![r] =
                  [@ EXCEPT !.aborted = TRUE, !.fetches = @ + 1]]
    /\ UNCHANGED <<cache, now, received, pages, lastIndex, otherVars>>

\* the timer fires first: controller.abort() rejects the fetch (AbortError)
FetchTimeout(r) ==
    /\ req[r].pc = "fetch"
    /\ req' = [req EXCEPT ![r] =
          abortCatch([@ EXCEPT !.aborted = TRUE],
                     "This operation was aborted")]
    /\ UNCHANGED <<cache, now, received, pages, lastIndex, otherVars>>

\* the fetch rejects with a transport error
FetchError(r) ==
    /\ req[r].pc = "fetch"
    /\ req' = [req EXCEPT ![r] = fetchCatch(@, "fetch", "socket hang up")]
    /\ UNCHANGED <<cache, now, received, pages, lastIndex, otherVars>>

\* response.text() resolves; extraction, assembly and the handler's decision
\* to cache follow without an await on anything external
BodyRead(r, stop) ==
    /\ req[r].pc = "body"
    /\ LET rq == IF Docs[req[r].doc].throws
                   THEN [req[r] EXCEPT !.bodyRead = TRUE, !.extracted = TRUE,
                            !.failed = "extraction",
                            !.errmsg = "Maximum call stack size exceeded"]
                   ELSE [req[r] EXCEPT !.bodyRead = TRUE, !.extracted = TRUE,
                            !.cut = stop <= NPatterns]
           resolutionResult ==
               assembleResult(Docs[rq.doc], rq.url, rq.referer, stop)
       IN  req' = [req EXCEPT ![r] =
              IF shouldCache(resolutionResult)
                THEN [rq EXCEPT !.pc = "set", !.sets = @ + 1,
                                !.resolution = resolutionResult]
                ELSE [rq EXCEPT !.pc = "done",
                                !.result = resolutionResult]]
    /\ lastIndex' = lastIndexAfter(Docs[req[r].doc], req[r].url, stop)
    /\ UNCHANGED <<cache, now, received, pages, otherVars>>

\* response.text() rejects
BodyFail(r) ==
    /\ req[r].pc = "body"
    /\ req' = [req EXCEPT ![r] = fetchCatch(@, "body", "terminated")]
    /\ UNCHANGED <<cache, now, received, pages, lastIndex, otherVars>>

\* CacheSetReturn writing the entry without a TTL
CacheSetReturn_NoTtl(r) ==
    /\ req[r].pc = "set"
    /\ cache' = cacheSet(cache, req[r].key, req[r].resolution,
                         REDIS_CACHE_TTL_GENERAL + MaxTime + 1, now)
    /\ req' = [req EXCEPT ![r] =
                  [@ EXCEPT !.pc = "done", !.result = req[r].resolution]]
    /\ UNCHANGED <<now, received, pages, lastIndex, otherVars>>

\* cache.set returns and the handler returns the resolution
CacheSetReturn(r) ==
    /\ req[r].pc = "set"
    /\ cache' = cacheSet(cache, req[r].key, req[r].resolution,
                         REDIS_CACHE_TTL_GENERAL, now)
    /\ req' = [req EXCEPT ![r] =
                  [@ EXCEPT !.pc = "done", !.result = req[r].resolution]]
    /\ UNCHANGED <<now, received, pages, lastIndex, otherVars>>

\* cache.set rejects
CacheSetFail(r) ==
    /\ req[r].pc = "set"
    /\ req' = [req EXCEPT ![r] =
                  handlerCatch(@, "cache.set", "cache unavailable")]
    /\ UNCHANGED <<cache, now, received, pages, lastIndex, otherVars>>

\* the response is sent and the handler run is over
Respond(r) ==
    /\ req[r].pc = "done"
    /\ req' = [req EXCEPT ![r] = IdleRequest]
    /\ UNCHANGED <<cache, now, received, pages, lastIndex, otherVars>>

\* time passes
Tick ==
    /\ now < MaxTime
    /\ now' = now + 1
    /\ UNCHANGED <<cache, req, received, pages, lastIndex, otherVars>>

Next ==
    \/ \E r \in Slots, q \in Queries : Receive(r, q)
    \/ \E r \in Slots : CacheGetReturn(r)
    \/ \E r \in Slots : CacheGetFail(r)
    \/ \E r \in Slots, status \in Statuses, d \in pages :
           FetchRespond(r, status, d)
    \/ \E r \in Slots : FetchTimeout(r)
    \/ \E r \in Slots : FetchError(r)
    \/ \E r \in Slots, stop \in StopPoints : BodyRead(r, stop)
    \/ \E r \in Slots : BodyFail(r)
    \/ \E r \in Slots : CacheSetReturn(r)
    \/ \E r \in Slots : CacheSetFail(r)
    \/ \E r \in Slots : Respond(r)
    \/ Tick

\* the request flow: requests over a few documents, the cache and the clock
Spec == Init /\ [][Next]_vars

\* one request at a time over every document
InitPages ==
    /\ cache = << >>
    /\ now = 0
    /\ req = [r \in Slots |-> IdleRequest]
    /\ received = MaxRequests - 1
    /\ pages = DocIds
    /\ lastIndex = [i \in 1..NPatterns |-> 0]
    /\ OthersIdle

SpecPages == InitPages /\ [][Next]_vars

\* documents whose scan leaves a regex in the middle of the text
SharedDocIds == {1, 4, 5}

InitShared ==
    /\ cache = << >>
    /\ now = MaxTime - 1
    /\ req = [r \in Slots |-> IdleRequest]
    /\ received = MaxRequests - 2
    /\ pages = SharedDocIds
    /\ lastIndex = [i \in 1..NPatterns |-> 0]
    /\ OthersIdle

\* two requests in progress together over documents with many matches
SpecShared == InitShared /\ [][Next]_vars

\* a target url that ends with the characters of a referer
TJoined == TGood \o RefGood

\* requests whose url and referer concatenate to the same string: a target
\* with a referer, by url and by u64, and the joined target without referer
KeyQueries ==
    { MkQuery("GET", NoParam, TGood, RefGood),
      MkQuery("GET", encodeBase64Url(TGood), NoParam, RefGood),
      MkQuery("GET", NoParam, TJoined, NoParam) }

InitKeys ==
    /\ cache = << >>
    /\ now = MaxTime - 1
    /\ req = [r \in Slots |-> IdleRequest]
    /\ received = MaxRequests - 2
    /\ pages = {1}
    /\ lastIndex = [i \in 1..NPatterns |-> 0]
    /\ OthersIdle

\* the steps of Next, for requests drawn from KeyQueries
NextKeys ==
    \/ \E r \in Slots, q \in KeyQueries : Receive(r, q)
    \/ \E r \in Slots : CacheGetReturn(r)
    \/ \E r \in Slots : CacheGetFail(r)
    \/ \E r \in Slots, status \in Statuses, d \in pages :
           FetchRespond(r, status, d)
    \/ \E r \in Slots : FetchTimeout(r)
    \/ \E r \in Slots : FetchError(r)
    \/ \E r \in Slots, stop \in StopPoints : BodyRead(r, stop)
    \/ \E r \in Slots : BodyFail(r)
    \/ \E r \in Slots : CacheSetReturn(r)
    \/ \E r \in Slots : CacheSetFail(r)
    \/ \E r \in Slots : Respond(r)
    \/ Tick

\* two requests for targets and referers that share their concatenation
SpecKeys == InitKeys /\ [][NextKeys]_vars

----------------------------------------------------------------------------
\* The time line of one resolution: performResolution from the call of fetch
\* to the return of extractVideoUrls.  Time is counted in milliseconds since
\* fetch was called and advances by quanta; an awaited operation lets time
\* pass, a stretch of synchronous code takes a duration.

\* the grain of time: a third of the fetch timeout
Quantum == timeoutMs \div 3

MaxElapsed == MaxQuanta * Quantum

\* how long one stretch of synchronous code (the unpacking, the deep pass,
\* the scan of the document with one pattern) may take
Durations == {0, Quantum, 2 * Quantum}

\* the endpoint at rest while another part of the program is followed
ResolveIdle ==
    /\ cache = << >>
    /\ now = 0
    /\ req = [r \in Slots |-> IdleRequest]
    /\ received = 0
    /\ pages = CoreDocIds
    /\ lastIndex = [i \in 1..NPatterns |-> 0]

InitBudget ==
    /\ ResolveIdle
    /\ run = NoRun
    /\ cand = NoCandidate
    /\ anime = NoAnime
    /\ player = NoPlayer
    /\ LaterIdle

\* time passes while fetch or response.text() is awaited; the armed timer
\* fires when it is due, so the wait for the headers does not outlast it
Elapse ==
    /\ run.phase \in {"fetch", "body"}
    /\ run.elapsed + Quantum <= MaxElapsed
    /\ run.armed => run.elapsed + Quantum <= timeoutMs
    /\ run' = [run EXCEPT !.elapsed = @ + Quantum]
    /\ UNCHANGED frameBudget

\* setTimeout's callback: controller.abort() rejects the awaited fetch
TimerFires ==
    /\ run.armed
    /\ run.elapsed >= timeoutMs
    /\ run' = [run EXCEPT !.armed = FALSE, !.phase = "done",
                          !.outcome = "timeout"]
    /\ UNCHANGED frameBudget

\* fetch resolves with the response headers: clearTimeout(timeoutId), then
\* the test of response.ok and the call of response.text()
HeadersArrive(ok) ==
    /\ run.phase = "fetch"
    /\ run' = IF ok THEN [run EXCEPT !.armed = FALSE, !.phase = "body"]
              ELSE [run EXCEPT !.armed = FALSE, !.phase = "done",
                               !.outcome = "failed to fetch"]
    /\ UNCHANGED frameBudget

\* fetch or response.text() rejects: the catch block clears the timer
AwaitRejects ==
    /\ run.phase \in {"fetch", "body"}
    /\ run' = [run EXCEPT !.armed = FALSE, !.phase = "done",
                          !.outcome = "network error"]
    /\ UNCHANGED frameBudget

\* response.text() resolves and extractVideoUrls is entered
BodyArrives(empty) ==
    /\ run.phase = "body"
    /\ run' = IF empty
                THEN [run EXCEPT !.phase = "done", !.outcome = "extracted",
                                 !.extractStart = run.elapsed]
                ELSE [run EXCEPT !.phase = "decode",
                                 !.extractStart = run.elapsed]
    /\ UNCHANGED frameBudget

\* decodeJavaScriptPacker(html), then `const startTime = Date.now()`
DecodePacker(d, vidmoly) ==
    /\ run.phase = "decode"
    /\ run.elapsed + d <= MaxElapsed
    /\ run' = [run EXCEPT !.elapsed = @ + d, !.startTime = run.elapsed + d,
                          !.phase = IF vidmoly THEN "deep" ELSE "scan"]
    /\ UNCHANGED frameBudget

\* analyzeVidMolyJavaScript(html) and the forEach over its urls
DeepPass(d) ==
    /\ run.phase = "deep"
    /\ run.elapsed + d <= MaxElapsed
    /\ run' = [run EXCEPT !.elapsed = @ + d, !.phase = "scan"]
    /\ UNCHANGED frameBudget

\* one iteration of the for loop over VIDEO_URL_PATTERNS: the test of the
\* clock, the test of totalUrlsFound, then the while loop over the matches
\* of the pattern, which takes d and may fill the list or throw
ScanPattern(d, full, throws) ==
    /\ run.phase = "scan"
    /\ run.elapsed + d <= MaxElapsed
    /\ run' =
          IF run.i > NPatterns
            THEN [run EXCEPT !.phase = "done", !.outcome = "extracted"]
          ELSE IF run.elapsed - run.startTime > PROCESSING_TIMEOUT
            THEN [run EXCEPT !.phase = "done", !.outcome = "stopped"]
          ELSE IF full
            THEN [run EXCEPT !.phase = "done", !.outcome = "extracted"]
          ELSE IF throws
            THEN [run EXCEPT !.elapsed = @ + d, !.phase = "done",
                             !.outcome = "extraction error"]
          ELSE [run EXCEPT !.elapsed = @ + d, !.i = @ + 1]
    /\ UNCHANGED frameBudget

NextBudget ==
    \/ Elapse
    \/ TimerFires
    \/ \E ok \in BOOLEAN : HeadersArrive(ok)
    \/ AwaitRejects
    \/ \E empty \in BOOLEAN : BodyArrives(empty)
    \/ \E d \in Durations, vidmoly \in BOOLEAN : DecodePacker(d, vidmoly)
    \/ \E d \in Durations : DeepPass(d)
    \/ \E d \in Durations, full \in BOOLEAN, throws \in BOOLEAN :
           ScanPattern(d, full, throws)

\* one resolution and its clock
SpecBudget == InitBudget /\ [][NextBudget]_vars

----------------------------------------------------------------------------
\* validateUrl applied to one candidate string

\* the strings validateUrl is called with: with and without white space and
\* quotes around them, of several lengths, schemes, hosts and ports
Candidates ==
    { [ ws |-> w, q |-> q, len |-> l, scheme |-> sc, host |-> h, port |-> pt,
        path |-> pa, ext |-> "mp4" ] :
        w \in BOOLEAN, q \in BOOLEAN,
        l \in {40, MAX_URL_LENGTH, MAX_URL_LENGTH + 1},
        sc \in {"", "http", "https", "HTTPS", "ftp", "FTP", "javascript"},
        h \in {"cdn.example", "localhost", "LOCALHOST", "localhost.",
               "127.0.0.1", "127.1", "2130706433", "0.0.0.0", "[::1]",
               "bad_host"},
        pt \in {0, 80, 443, 8080, 8443, 9999},
        pa \in {"/", "/v720p"} }
    \cup { [Relative("", "") EXCEPT !.len = 0, !.ws = w, !.q = q] :
             w \in BOOLEAN, q \in BOOLEAN }

InitValidator ==
    /\ ResolveIdle
    /\ run = NoRun
    /\ cand \in {[NoCandidate EXCEPT !.input = c] : c \in Candidates}
    /\ anime = NoAnime
    /\ player = NoPlayer
    /\ LaterIdle

\* the call validateUrl(candidate) returns
Validate ==
    /\ ~cand.called
    /\ cand' = [cand EXCEPT !.called = TRUE,
                            !.verdict = validateUrl(cand.input)]
    /\ UNCHANGED frameValidator

NextValidator == Validate

\* validateUrl over the candidate strings
SpecValidator == InitValidator /\ [][NextValidator]_vars

----------------------------------------------------------------------------
\* getAnimeDataCached of the series progress endpoint.  anime.fetches is the
\* sequence of upstream fetches $fetch(`/api/anime/${animeId}`) issued so
\* far, each with the promise of the request built around it; the promise
\* stored in pendingAnimeRequests is named by its place in that sequence.

\* what the upstream may answer with
AnimeData == {"d1", "d2", "null"}

AnimeErrors == {"e404", "e500"}

\* `if (cached)`: the value is neither undefined nor falsy
truthy(x) == x \notin {NoData, "null"}

\* the upstream fetches of id that have not settled
inFlight(id) ==
    {n \in 1..Len(anime.fetches) :
        anime.fetches[n].id = id /\ anime.fetches[n].state = "pending"}

InitAnime ==
    /\ ResolveIdle
    /\ run = NoRun
    /\ cand = NoCandidate
    /\ anime = NoAnime
    /\ player = NoPlayer
    /\ LaterIdle

\* getAnimeDataCached issuing a fetch without looking at the pending map
getAnimeDataCached_NoPendingCheck(c, animeId) ==
    /\ anime.calls[c].pc = "idle"
    /\ truthy(anime.animeCache[animeId])
          \/ Len(anime.fetches) < MaxFetches
    /\ LET call == [NoCall EXCEPT !.id = animeId, !.during = inFlight(animeId)]
           n == Len(anime.fetches) + 1
       IN  anime' =
             IF truthy(anime.animeCache[animeId])
               THEN [anime EXCEPT !.calls[c] =
                       [call EXCEPT !.pc = "settled",
                          !.outcome = [kind |-> "fulfilled",
                                       value |-> anime.animeCache[animeId]]]]
               ELSE [anime EXCEPT
                       !.fetches = Append(@, [id |-> animeId,
                                              state |-> "pending",
                                              value |-> ""]),
                       !.pendingAnimeRequests[animeId] = n,
                       !.calls[c] = [call EXCEPT !.pc = "waiting",
                                       !.awaits = n, !.issued = TRUE]]
    /\ UNCHANGED frameAnime

\* a caller runs getAnimeDataCached(animeId) up to its return: the cached
\* value, the promise in flight, or the promise of a new request whose
\* $fetch has been called
getAnimeDataCached(c, animeId) ==
    /\ anime.calls[c].pc = "idle"
    /\ \/ truthy(anime.animeCache[animeId])
       \/ anime.pendingAnimeRequests[animeId] # 0
       \/ Len(anime.fetches) < MaxFetches
    /\ LET call == [NoCall EXCEPT !.id = animeId, !.during = inFlight(animeId)]
           pending == anime.pendingAnimeRequests[animeId]
           n == Len(anime.fetches) + 1
       IN  anime' =
             IF truthy(anime.animeCache[animeId])
               THEN [anime EXCEPT !.calls[c] =
                       [call EXCEPT !.pc = "settled",
                          !.outcome = [kind |-> "fulfilled",
                                       value |-> anime.animeCache[animeId]]]]
             ELSE IF pending # 0
               THEN [anime EXCEPT !.calls[c] =
                       [call EXCEPT !.pc = "waiting", !.awaits = pending]]
               ELSE [anime EXCEPT
                       !.fetches = Append(@, [id |-> animeId,
                                              state |-> "pending",
                                              value |-> ""]),
                       !.pendingAnimeRequests[animeId] = n,
                       !.calls[c] = [call EXCEPT !.pc = "waiting",
                                       !.awaits = n, !.issued = TRUE]]
    /\ UNCHANGED frameAnime

\* $fetch resolves: animeCache.set, `return data`, then the finally block
AnimeFetchResolves(n, data) ==
    /\ n \in 1..Len(anime.fetches)
    /\ anime.fetches[n].state = "pending"
    /\ anime' = [anime EXCEPT
          !.animeCache[anime.fetches[n].id] = data,
          !.pendingAnimeRequests[anime.fetches[n].id] = 0,
          !.fetches[n] = [@ EXCEPT !.state = "fulfilled", !.value = data]]
    /\ UNCHANGED frameAnime

\* $fetch rejects and the promise stays in pendingAnimeRequests
AnimeFetchRejects_KeepsPending(n, error) ==
    /\ n \in 1..Len(anime.fetches)
    /\ anime.fetches[n].state = "pending"
    /\ anime' = [anime EXCEPT
          !.fetches[n] = [@ EXCEPT !.state = "rejected", !.value = error]]
    /\ UNCHANGED frameAnime

\* $fetch rejects: `throw error`, then the finally block
AnimeFetchRejects(n, error) ==
    /\ n \in 1..Len(anime.fetches)
    /\ anime.fetches[n].state = "pending"
    /\ anime' = [anime EXCEPT
          !.pendingAnimeRequests[anime.fetches[n].id] = 0,
          !.fetches[n] = [@ EXCEPT !.state = "rejected", !.value = error]]
    /\ UNCHANGED frameAnime

\* the await of a caller on the returned promise ends
AnimeCallSettles(c) ==
    /\ anime.calls[c].pc = "waiting"
    /\ anime.fetches[anime.calls[c].awaits].state # "pending"
    /\ anime' = [anime EXCEPT !.calls[c] =
          [@ EXCEPT !.pc = "settled",
             !.outcome = [kind |-> anime.fetches[anime.calls[c].awaits].state,
                          value |-> anime.fetches[anime.calls[c].awaits].value]]]
    /\ UNCHANGED frameAnime

NextAnime ==
    \/ \E c \in Callers, animeId \in AnimeIds : getAnimeDataCached(c, animeId)
    \/ \E n \in 1..MaxFetches, data \in AnimeData : AnimeFetchResolves(n, data)
    \/ \E n \in 1..MaxFetches, error \in AnimeErrors :
           AnimeFetchRejects(n, error)
    \/ \E c \in Callers : AnimeCallSettles(c)

\* the callers of getAnimeDataCached and the upstream
SpecAnime == InitAnime /\ [][NextAnime]_vars

----------------------------------------------------------------------------
\* The multi-candidate resolutions of the watch page:
\* resolveSourcesImmediately, resolveSourcesForLanguage and
\* resolveEpisodeInBackground, one call at a time

\* the timeout option of $fetch("/api/player/resolve"), in milliseconds
parallelTimeout == 5000

fallbackTimeout == 3000

backgroundTimeout == 8000

\* Math.min(candidates.length, 3), candidates.slice(0, 3)
maxParallel == 3

maxCandidates(n) == IF n < maxParallel THEN n ELSE maxParallel

\* how the $fetch of an attempt ends: a response with ok and urls, another
\* response, the timeout, a network error
Endings == {"urls", "no urls", "timeout", "error"}

\* the attempts whose $fetch has not settled
attemptsInFlight ==
    {<<"parallel", i>> : i \in {j \in 1..player.candidates :
                                   player.promises[j].state = "flight"}}
    \cup {<<"fallback", i>> : i \in {j \in 1..player.candidates :
                                   player.fallback[j].state = "flight"}}

InitPlayer ==
    /\ ResolveIdle
    /\ run = NoRun
    /\ cand = NoCandidate
    /\ anime = NoAnime
    /\ player \in {NewPlayer(fn, n) : fn \in ResolveFns, n \in 1..MaxCandidates}
    /\ LaterIdle

\* the $fetch of an attempt is called with this timeout
startAttempt(timeout) ==
    [state |-> "flight", timeout |-> timeout, tries |-> 1, ending |-> ""]

\* CallResolve mapping over every candidate
CallResolve_NoSlice ==
    /\ player.pc = "called"
    /\ player' = [player EXCEPT
          !.pc = "parallel",
          !.promises = [i \in 1..player.candidates |->
              startAttempt(IF player.fn = "resolveEpisodeInBackground"
                             THEN backgroundTimeout ELSE parallelTimeout)]]
    /\ UNCHANGED framePlayer

\* the call up to `await Promise.allSettled(...)`: the callback of map runs
\* for each of the first candidates up to its `await $fetch(...)`
CallResolve ==
    /\ player.pc = "called"
    /\ player' = [player EXCEPT
          !.pc = "parallel",
          !.promises = [i \in 1..player.candidates |->
              IF i <= maxCandidates(player.candidates)
                THEN startAttempt(IF player.fn = "resolveEpisodeInBackground"
                                    THEN backgroundTimeout
                                    ELSE parallelTimeout)
                ELSE NoAttempt]]
    /\ UNCHANGED framePlayer

\* the first of the promises that is fulfilled with urls, 0 if none is
firstFulfilled(promises) ==
    IF \E i \in DOMAIN promises : promises[i].state = "urls"
      THEN CHOOSE i \in DOMAIN promises :
              /\ promises[i].state = "urls"
              /\ \A j \in 1..(i - 1) : promises[j].state # "urls"
      ELSE 0

\* the function from the moment Promise.allSettled resolves: to its end, or
\* to the first `await $fetch(...)` of the sequential fallback
afterAllSettled(p) ==
    LET first == firstFulfilled(p.promises) IN
    IF p.fn = "resolveSourcesImmediately"
      THEN [p EXCEPT !.pc = "done",
              !.outcome = IF p.playUrl = 0 /\ first = 0
                            THEN "resolveError" ELSE "completed"]
    ELSE IF p.fn = "resolveEpisodeInBackground"
      THEN [p EXCEPT !.pc = "done", !.outcome = "completed"]
    ELSE IF first # 0
      THEN [p EXCEPT !.pc = "done", !.outcome = "returned", !.result = first]
    ELSE [p EXCEPT !.pc = "fallback",
                   !.fallback[1] = startAttempt(fallbackTimeout)]

\* the $fetch of parallel attempt i settles and the callback of map ends:
\* resolveSourcesImmediately starts playback with the urls when nothing
\* plays yet; the promise is fulfilled with the urls or with null; when it
\* was the last to settle, Promise.allSettled resolves and the function
\* runs on
ParallelSettles(i, ending) ==
    /\ player.pc = "parallel"
    /\ i \in 1..player.candidates
    /\ player.promises[i].state = "flight"
    /\ LET settled ==
               IF ending = "urls"
                 THEN [player EXCEPT
                         !.promises[i].state = "urls",
                         !.promises[i].ending = ending,
                         !.playUrl =
                            IF player.fn = "resolveSourcesImmediately"
                                 /\ player.playUrl = 0
                              THEN i ELSE player.playUrl]
                 ELSE [player EXCEPT !.promises[i].state = "null",
                                     !.promises[i].ending = ending]
       IN  player' =
              IF \A j \in 1..player.candidates :
                    settled.promises[j].state # "flight"
                THEN afterAllSettled(settled)
                ELSE settled
    /\ UNCHANGED framePlayer

\* FallbackSettles calling $fetch again for the url whose attempt timed out
FallbackSettles_RetryOnTimeout(i, ending) ==
    /\ player.pc = "fallback"
    /\ i \in 1..player.candidates
    /\ player.fallback[i].state = "flight"
    /\ LET settled == [player EXCEPT !.fallback[i].ending = ending] IN
       player' =
          IF ending = "urls"
            THEN [settled EXCEPT !.fallback[i].state = "urls", !.pc = "done",
                                 !.outcome = "returned", !.result = i]
          ELSE IF ending = "timeout" /\ player.fallback[i].tries < maxParallel
            THEN [settled EXCEPT !.fallback[i].tries = @ + 1]
          ELSE IF i + 1 <= maxCandidates(player.candidates)
            THEN [settled EXCEPT !.fallback[i].state = "null",
                    !.fallback[i + 1] = startAttempt(fallbackTimeout)]
          ELSE [settled EXCEPT !.fallback[i].state = "null", !.pc = "done",
                               !.outcome = "thrown"]
    /\ UNCHANGED framePlayer

\* the $fetch of fallback attempt i settles: `break` and return, the next
\* candidate, or `throw new Error(...)` after the last one
FallbackSettles(i, ending) ==
    /\ player.pc = "fallback"
    /\ i \in 1..player.candidates
    /\ player.fallback[i].state = "flight"
    /\ LET settled == [player EXCEPT !.fallback[i].ending = ending] IN
       player' =
          IF ending = "urls"
            THEN [settled EXCEPT !.fallback[i].state = "urls", !.pc = "done",
                                 !.outcome = "returned", !.result = i]
          ELSE IF i + 1 <= maxCandidates(player.candidates)
            THEN [settled EXCEPT !.fallback[i].state = "null",
                    !.fallback[i + 1] = startAttempt(fallbackTimeout)]
          ELSE [settled EXCEPT !.fallback[i].state = "null", !.pc = "done",
                               !.outcome = "thrown"]
    /\ UNCHANGED framePlayer

NextPlayer ==
    \/ CallResolve
    \/ \E i \in 1..MaxCandidates, ending \in Endings :
           ParallelSettles(i, ending)
    \/ \E i \in 1..MaxCandidates, ending \in Endings :
           FallbackSettles(i, ending)

\* one multi-candidate resolution and the answers to its attempts
SpecPlayer == InitPlayer /\ [][NextPlayer]_vars

\* every $fetch of an attempt has a timeout option, so each attempt in
\* flight settles and the continuation of the function runs
SpecPlayerLive == SpecPlayer /\ WF_vars(NextPlayer)

----------------------------------------------------------------------------
\* The u64 parameter, character by character: the watch page encodes a
\* target url (TextEncoder, btoa, three replaces) and decodeBase64Url of the
\* resolve endpoint decodes it.  A string is the sequence of its code
\* points, a binary string the sequence of its bytes, a base64 text the
\* sequence of its characters.

\* the characters target urls are drawn from: a > ? e-acute, the euro sign
\* and an emoji, of 1, 1, 1, 2, 3 and 4 UTF-8 bytes
CodePoints == {97, 62, 63, 233, 8364, 128512}

\* U+FFFD, which a UTF-8 decoder puts for bytes that are not UTF-8
Replacement == 65533

Base64Alphabet ==
    << "A", "B", "C", "D", "E", "F", "G", "H", "I", "J", "K", "L", "M",
       "N", "O", "P", "Q", "R", "S", "T", "U", "V", "W", "X", "Y", "Z",
       "a", "b", "c", "d", "e", "f", "g", "h", "i", "j", "k", "l", "m",
       "n", "o", "p", "q", "r", "s", "t", "u", "v", "w", "x", "y", "z",
       "0", "1", "2", "3", "4", "5", "6", "7", "8", "9", "+", "/" >>

\* the character of a sextet
charOf(sextet) == Base64Alphabet[sextet + 1]

\* TextEncoder.encode of one character
utf8Of(cp) ==
    IF cp < 128 THEN <<cp>>
    ELSE IF cp < 2048 THEN <<192 + (cp \div 64), 128 + (cp % 64)>>
    ELSE IF cp < 65536
      THEN <<224 + (cp \div 4096), 128 + ((cp \div 64) % 64),
             128 + (cp % 64)>>
    ELSE <<240 + (cp \div 262144), 128 + ((cp \div 4096) % 64),
           128 + ((cp \div 64) % 64), 128 + (cp % 64)>>

\* encoder.encode(targetUrl)
RECURSIVE encode(_)
encode(str) ==
    IF str = << >> THEN << >> ELSE utf8Of(Head(str)) \o encode(Tail(str))

\* btoa of the binary string String.fromCharCode(...data)
RECURSIVE btoa(_)
btoa(bytes) ==
    IF bytes = << >> THEN << >>
    ELSE IF Len(bytes) = 1
      THEN << charOf(bytes[1] \div 4), charOf((bytes[1] % 4) * 16), "=", "=" >>
    ELSE IF Len(bytes) = 2
      THEN << charOf(bytes[1] \div 4),
              charOf(((bytes[1] % 4) * 16) + (bytes[2] \div 16)),
              charOf((bytes[2] % 16) * 4), "=" >>
    ELSE << charOf(bytes[1] \div 4),
            charOf(((bytes[1] % 4) * 16) + (bytes[2] \div 16)),
            charOf(((bytes[2] % 16) * 4) + (bytes[3] \div 64)),
            charOf(bytes[3] % 64) >> \o btoa(SubSeq(bytes, 4, Len(bytes)))

\* text.replace(/from/g, to) for a one-character pattern
replaceAll(text, from, to) ==
    [k \in 1..Len(text) |-> IF text[k] = from THEN to ELSE text[k]]

\* text.replace(/=+$/, "")
RECURSIVE stripPadding(_)
stripPadding(text) ==
    IF text # << >> /\ text[Len(text)] = "="
      THEN stripPadding(SubSeq(text, 1, Len(text) - 1))
      ELSE text

\* the u64 parameter the watch page sends for targetUrl
clientBase64Url(targetUrl) ==
    stripPadding(replaceAll(replaceAll(btoa(encode(targetUrl)), "+", "-"),
                            "/", "_"))

\* '==='.slice(start)
slicePadding(start) == [k \in 1..(3 - start) |-> "="]

\* the padding of decodeBase64Url taken by the length modulo 4
padding_ByLength(length) == slicePadding(length % 4)

\* '==='.slice((base64.length + 3) % 4)
padding(length) == slicePadding((length + 3) % 4)

\* const padded = base64 + padding, base64 being the input with - and _
\* replaced
paddedOf(input) ==
    LET base64 == replaceAll(replaceAll(input, "-", "+"), "_", "/")
    IN  base64 \o padding(Len(base64))

\* the sextets Buffer.from(text, 'base64') reads: it stops at the first =,
\* takes - and _ for + and /, and skips any other character
RECURSIVE sextetsOf(_)
sextetsOf(text) ==
    IF text = << >> \/ Head(text) = "=" THEN << >>
    ELSE LET c == IF Head(text) = "-" THEN "+"
                  ELSE IF Head(text) = "_" THEN "/" ELSE Head(text)
         IN  IF \E k \in 1..64 : Base64Alphabet[k] = c
               THEN <<(CHOOSE k \in 1..64 : Base64Alphabet[k] = c) - 1>>
                       \o sextetsOf(Tail(text))
               ELSE sextetsOf(Tail(text))

\* the bytes of a sequence of sextets; an incomplete last byte is dropped
RECURSIVE bytesOf(_)
bytesOf(sx) ==
    IF Len(sx) < 2 THEN << >>
    ELSE IF Len(sx) = 2 THEN << (sx[1] * 4) + (sx[2] \div 16) >>
    ELSE IF Len(sx) = 3
      THEN << (sx[1] * 4) + (sx[2] \div 16), ((sx[2] % 16) * 16) + (sx[3] \div 4) >>
    ELSE << (sx[1] * 4) + (sx[2] \div 16), ((sx[2] % 16) * 16) + (sx[3] \div 4),
            ((sx[3] % 4) * 64) + sx[4] >> \o bytesOf(SubSeq(sx, 5, Len(sx)))

\* a continuation byte 10xxxxxx at place k
isContinuation(bytes, k) ==
    k <= Len(bytes) /\ bytes[k] >= 128 /\ bytes[k] < 192

\* buffer.toString('utf8'): the characters of the bytes, U+FFFD for a byte
\* that does not start a complete sequence
RECURSIVE toStringUtf8(_)
toStringUtf8(bytes) ==
    IF bytes = << >> THEN << >>
    ELSE LET b == bytes[1]
             rest(n) == toStringUtf8(SubSeq(bytes, n + 1, Len(bytes)))
         IN  IF b < 128 THEN <<b>> \o rest(1)
             ELSE IF b >= 192 /\ b < 224 /\ isContinuation(bytes, 2)
               THEN <<(b - 192) * 64 + (bytes[2] - 128)>> \o rest(2)
             ELSE IF b >= 224 /\ b < 240 /\ isContinuation(bytes, 2)
                     /\ isContinuation(bytes, 3)
               THEN <<(b - 224) * 4096 + (bytes[2] - 128) * 64
                        + (bytes[3] - 128)>> \o rest(3)
             ELSE IF b >= 240 /\ b < 248 /\ isContinuation(bytes, 2)
                     /\ isContinuation(bytes, 3) /\ isContinuation(bytes, 4)
               THEN <<(b - 240) * 262144 + (bytes[2] - 128) * 4096
                        + (bytes[3] - 128) * 64 + (bytes[4] - 128)>>
                       \o rest(4)
             ELSE <<Replacement>> \o rest(1)

\* Buffer.from(padded, 'base64').toString('utf8')
decodePadded(padded) == toStringUtf8(bytesOf(sextetsOf(padded)))

\* the target urls of the watch page, up to MaxChars characters
RECURSIVE StringsUpTo(_)
StringsUpTo(n) ==
    IF n = 0 THEN {<< >>}
    ELSE LET shorter == StringsUpTo(n - 1)
         IN  shorter \cup {Append(t, c) : t \in shorter, c \in CodePoints}

InitCodec ==
    /\ ResolveIdle
    /\ FirstIdle
    /\ codec \in {NewCodec(t) : t \in StringsUpTo(MaxChars)}
    /\ packer = NoPacker
    /\ video = NoVideo
    /\ route = NoRoute
    /\ limiter = NoLimiter

\* the watch page encodes the target url and sends the request
EncodeTarget ==
    /\ codec.phase = "page"
    /\ codec' = [codec EXCEPT !.phase = "sent",
                              !.u64 = clientBase64Url(codec.targetUrl)]
    /\ UNCHANGED frameCodec

\* the endpoint runs decodeBase64Url(query.u64); Buffer.from does not throw
\* for a string, so the try block returns
DecodeParam ==
    /\ codec.phase = "sent"
    /\ codec' = [codec EXCEPT !.phase = "decoded",
                              !.padded = paddedOf(codec.u64),
                              !.url = decodePadded(paddedOf(codec.u64))]
    /\ UNCHANGED frameCodec

NextCodec ==
    \/ EncodeTarget
    \/ DecodeParam

\* one target url from the watch page to the resolve handler
SpecCodec == InitCodec /\ [][NextCodec]_vars

----------------------------------------------------------------------------
\* decodeJavaScriptPacker, character by character, for one match of
\* packerPattern.  A text is the sequence of its characters.

\* the digits of Number.prototype.toString(radix)
RadixDigits ==
    << "0", "1", "2", "3", "4", "5", "6", "7", "8", "9", "a", "b", "c",
       "d", "e", "f", "g", "h", "i", "j", "k", "l", "m", "n", "o", "p",
       "q", "r", "s", "t", "u", "v", "w", "x", "y", "z" >>

\* the largest radix toString accepts; a larger one throws a RangeError
MaxRadix == Len(RadixDigits)

\* \w of a regular expression, for the characters of the model
isWordChar(c) == c = "_" \/ \E k \in 1..MaxRadix : RadixDigits[k] = c

\* the digits of i in the radix, whatever the radix
RECURSIVE digitsOf(_, _)
digitsOf(i, radix) ==
    IF i < radix
      THEN <<RadixDigits[IF i < MaxRadix THEN i + 1 ELSE MaxRadix]>>
      ELSE digitsOf(i \div radix, radix) \o digitsOf(i % radix, radix)

\* whether the regex \btoken\b matches text at place k
matchesAt(text, k, token) ==
    LET after == k + Len(token) IN
    /\ after - 1 <= Len(text)
    /\ SubSeq(text, k, after - 1) = token
    /\ k = 1 \/ ~isWordChar(text[k - 1])
    /\ after > Len(text) \/ ~isWordChar(text[after])

\* decoded.replace(new RegExp('\\b' + token + '\\b', 'g'), keyword), read
\* from place k on
RECURSIVE replaceFrom(_, _, _, _)
replaceFrom(text, k, token, keyword) ==
    IF k > Len(text) THEN << >>
    ELSE IF matchesAt(text, k, token)
      THEN keyword \o replaceFrom(text, k + Len(token), token, keyword)
      ELSE <<text[k]>> \o replaceFrom(text, k + 1, token, keyword)

\* keywords[i] is a non-empty string
hasKeyword(keywords, i) == i + 1 <= Len(keywords) /\ keywords[i + 1] # << >>

\* the loop `for (let i = count - 1; i >= 0; i--)` from index i on
RECURSIVE decodeLoop(_, _, _, _)
decodeLoop(decoded, i, radix, keywords) ==
    IF i < 0 THEN decoded
    ELSE IF hasKeyword(keywords, i)
      THEN decodeLoop(replaceFrom(decoded, 1, digitsOf(i, radix),
                                  keywords[i + 1]),
                      i - 1, radix, keywords)
      ELSE decodeLoop(decoded, i - 1, radix, keywords)

\* i.toString(radix) throws for a radix outside 2..36; the loop reaches the
\* call at the first index that has a keyword
toStringThrows(radix, count, keywords) ==
    /\ radix < 2 \/ radix > MaxRadix
    /\ \E i \in 0..(count - 1) : hasKeyword(keywords, i)

\* the characters of the payloads and the words of the dictionaries
PayloadChars == {"0", "1", "a", "="}

DictionaryWords == {<< >>, <<"0">>, <<"a">>}

Radixes == {2, 10, 62}

\* the texts of 1..n characters, for '([^']+)'
RECURSIVE TextsUpTo(_)
TextsUpTo(n) ==
    IF n = 1 THEN {<<c>> : c \in PayloadChars}
    ELSE LET shorter == TextsUpTo(n - 1)
         IN  shorter \cup {Append(t, c) : t \in shorter, c \in PayloadChars}

\* the results of split('|') on a non-empty dictionary string
RECURSIVE DictionariesUpTo(_)
DictionariesUpTo(n) ==
    IF n = 1 THEN {<<w>> : w \in DictionaryWords \ {<< >>}}
    ELSE LET shorter == DictionariesUpTo(n - 1)
         IN  shorter \cup {<<w>> \o d : w \in DictionaryWords, d \in shorter}
                     \cup {Append(d, w) : w \in DictionaryWords, d \in shorter}

InitPacker ==
    /\ ResolveIdle
    /\ FirstIdle
    /\ codec = NoCodec
    /\ packer \in {NewPacker(p, r, c, k) :
                       p \in TextsUpTo(MaxPayload), r \in Radixes,
                       c \in 1..MaxCount, k \in DictionariesUpTo(MaxCount)}
    /\ video = NoVideo
    /\ route = NoRoute
    /\ limiter = NoLimiter

\* the body of the while loop for the match: the try block appends the
\* decoded text to decodedHtml, the catch block only warns
DecodeBlock ==
    /\ packer.phase = "matched"
    /\ packer' =
          IF toStringThrows(packer.radix, packer.count, packer.keywords)
            THEN [packer EXCEPT !.phase = "caught"]
            ELSE [packer EXCEPT
                    !.phase = "decoded", !.appended = TRUE,
                    !.decoded = decodeLoop(packer.packed, packer.count - 1,
                                           packer.radix, packer.keywords)]
    /\ UNCHANGED framePacker

\* the next exec() returns null and decodedHtml is returned
ReturnDecodedHtml ==
    /\ packer.phase \in {"decoded", "caught"}
    /\ packer' = [packer EXCEPT !.phase = "returned"]
    /\ UNCHANGED framePacker

NextPacker ==
    \/ DecodeBlock
    \/ ReturnDecodedHtml

\* decodeJavaScriptPacker over one packer block
SpecPacker == InitPacker /\ [][NextPacker]_vars

----------------------------------------------------------------------------
\* The error handling of the watch page's player: setupVideo,
\* handleVideoError, tryNextSource and the timers they arm, for a
\* resolvedList none of whose sources plays.  Sources are named by their
\* index in resolvedList, from 0.

MAX_RETRIES_PER_SOURCE == 2

ErrorTypes == {"videojs", "native"}

\* setupVideo: the counters are reset, the player of the previous source is
\* destroyed with its timers, and the loading timeout is armed for HLS
setupVideo(v) ==
    [v EXCEPT !.phase = "loading", !.currentSourceRetries = 0,
              !.lastErrorType = "", !.videoError = "",
              !.retryTimeout = FALSE,
              !.hlsLoadTimeout = v.currentSourceIndex \in v.hls]

tryNextSource(v) ==
    IF v.sources <= 1
      THEN [v EXCEPT !.phase = "stopped",
              !.videoError = "Aucune source alternative disponible"]
    ELSE LET startIndex == v.currentSourceIndex
             next == (v.currentSourceIndex + 1) % v.sources
         IN  IF next = startIndex
               THEN [v EXCEPT !.phase = "stopped",
                       !.currentSourceIndex = next,
                       !.videoError = "Toutes les sources vidéo ont échoué"]
               ELSE setupVideo([v EXCEPT !.currentSourceIndex = next,
                                         !.streak = 0, !.streakType = ""])

handleVideoError(v, errorType, recoverable) ==
    LET cleared == [v EXCEPT !.retryTimeout = FALSE]
        typed == IF v.lastErrorType # errorType
                   THEN [cleared EXCEPT !.lastErrorType = errorType,
                                        !.currentSourceRetries = 0]
                   ELSE cleared
    IN  IF recoverable /\ typed.currentSourceRetries < MAX_RETRIES_PER_SOURCE
          THEN [typed EXCEPT
                  !.phase = "waiting",
                  !.currentSourceRetries = @ + 1,
                  !.videoError = "Nouvelle tentative",
                  !.retryTimeout = TRUE,
                  !.streak = IF v.streakType = errorType
                               THEN v.streak + 1 ELSE 1,
                  !.streakType = errorType]
          ELSE tryNextSource(typed)

InitVideo ==
    /\ ResolveIdle
    /\ FirstIdle
    /\ codec = NoCodec
    /\ packer = NoPacker
    /\ video \in {NewVideo(n, hls) : n \in 1..MaxSources,
                                     hls \in SUBSET (0..(MaxSources - 1))}
    /\ video.hls \subseteq 0..(video.sources - 1)
    /\ route = NoRoute
    /\ limiter = NoLimiter

\* the error event of the player or of the video element: handleVideoError
VideoError(errorType, recoverable) ==
    /\ video.phase = "loading"
    /\ recoverable => video.streak < MaxStreak
    /\ video' = handleVideoError(video, errorType, recoverable)
    /\ UNCHANGED frameVideo

\* the callback of retryTimeout: setupVideo()
RetryFires ==
    /\ video.phase = "waiting"
    /\ video.retryTimeout
    /\ video' = setupVideo(video)
    /\ UNCHANGED frameVideo

\* the callback of hlsLoadTimeout: destroyPlayer(), which clears the
\* pending timers, then tryNextSource()
HlsLoadTimeoutFires ==
    /\ video.phase \in {"loading", "waiting"}
    /\ video.hlsLoadTimeout
    /\ video' = tryNextSource([video EXCEPT !.hlsLoadTimeout = FALSE,
                                            !.retryTimeout = FALSE])
    /\ UNCHANGED frameVideo

NextVideo ==
    \/ \E errorType \in ErrorTypes, recoverable \in BOOLEAN :
           VideoError(errorType, recoverable)
    \/ RetryFires
    \/ HlsLoadTimeoutFires

\* the player over sources that all fail
SpecVideo == InitVideo /\ [][NextVideo]_vars

\* a source that does not play raises an error or runs into its timeout,
\* and an armed timer fires
SpecVideoLive == SpecVideo /\ WF_vars(NextVideo)

----------------------------------------------------------------------------
\* The watch page across route changes: the watcher of the route params,
\* resolveEpisode, and the calls of resolveSourcesImmediately with their
\* responses.  A source is named by the route, the candidate and the place
\* in the response it comes from.

\* the routes gone through: another episode, then another language
Routes ==
    << [lang |-> "vostfr", episode |-> 1],
       [lang |-> "vostfr", episode |-> 2],
       [lang |-> "vf", episode |-> 2],
       [lang |-> "vf", episode |-> 3] >>

routeOf(r) == Routes[IF r <= Len(Routes) THEN r ELSE Len(Routes)]

MkSource(r, c, k, type, reliability) ==
    [ url |-> <<r, c, k>>, type |-> type,
      provider |-> [reliability |-> reliability] ]

\* resolveResponse.urls of the candidates of the episode of route r: the
\* first host serves an mp4 and an hls source, the second, more reliable
\* one, an hls source, the third, less reliable one, an hls source
responseUrls(r) ==
    << << MkSource(r, 1, 1, "mp4", 5), MkSource(r, 1, 2, "hls", 5) >>,
       << MkSource(r, 2, 1, "hls", 10) >>,
       << MkSource(r, 3, 1, "hls", 3) >> >>

\* urls.find(u => u.type === "hls") || urls[0]
hlsFirst(urls) ==
    IF \E k \in 1..Len(urls) : urls[k].type = "hls"
      THEN urls[CHOOSE k \in 1..Len(urls) :
                  /\ urls[k].type = "hls"
                  /\ \A j \in 1..(k - 1) : urls[j].type # "hls"]
      ELSE urls[1]

\* the entry of resolvedSourcesByLanguage written for a language
languageEntry(rt, lang, sources) ==
    [ lang |-> lang, sources |-> sources,
      episode |-> routeOf(rt.current).episode ]

\* resolvedSourcesByLanguage.value[lang] = entry
setLanguageEntry(entries, entry) ==
    SelectSeq(entries, LAMBDA e : e.lang # entry.lang) \o <<entry>>

\* the fulfilled values of the settled promises, in the order of the
\* candidates: allSources
RECURSIVE allSourcesOf(_, _)
allSourcesOf(call, c) ==
    IF c > Len(call.promises) THEN << >>
    ELSE (IF call.promises[c] = "urls" THEN responseUrls(call.route)[c]
          ELSE << >>) \o allSourcesOf(call, c + 1)

\* resolveSourcesImmediately (call) from the moment Promise.allSettled
\* resolves to its end; the urls of the sources are distinct, so the Map
\* of unique sources keeps them all
afterSettled(rt, call) ==
    LET allSources == allSourcesOf(call, 1)
        finalSources == sortByReliability(allSources)
        listed ==
            IF Len(allSources) > Len(rt.resolvedList)
              THEN [rt EXCEPT
                      !.resolvedList = finalSources,
                      !.resolvedSourcesByLanguage =
                          setLanguageEntry(@, languageEntry(rt, call.lang,
                                                            finalSources))]
              ELSE rt
    IN  IF rt.playUrl = NoUrl /\ allSources = << >>
          THEN [listed EXCEPT !.resolveError = "Aucune source vidéo trouvée"]
          ELSE listed

\* the callback of map after `await $fetch(...)` answered with urls
adopt(rt, call, urls) ==
    IF rt.playUrl = NoUrl
      THEN [rt EXCEPT
              !.resolvedList = urls,
              !.resolvedSourcesByLanguage =
                  setLanguageEntry(@, languageEntry(rt, call.lang, urls)),
              !.currentSourceIndex = 0,
              !.playUrl = [url |-> hlsFirst(urls).url]]
      ELSE rt

\* resolveSourcesImmediately(epUrls, lang.value) up to its await: one
\* $fetch in flight for each candidate of the current route
newCall(rt) ==
    [ route |-> rt.current, lang |-> routeOf(rt.current).lang,
      promises |-> [c \in 1..Len(responseUrls(rt.current)) |-> "flight"] ]

\* the page mounted on its first route, resolveEpisode having called
\* resolveSourcesImmediately
InitRoute ==
    /\ ResolveIdle
    /\ FirstIdle
    /\ codec = NoCodec
    /\ packer = NoPacker
    /\ video = NoVideo
    /\ route = [NoRoute EXCEPT !.calls = <<newCall(NoRoute)>>]
    /\ limiter = NoLimiter

\* the route params change: the watcher arms its debounce timer
Navigate ==
    /\ route.current < MaxRoutes
    /\ route' = [route EXCEPT !.current = @ + 1, !.resolveTimeout = TRUE]
    /\ UNCHANGED frameRoute

\* the debounce timer fires: resolveEpisode() runs up to
\* `await Promise.all(languagePromises)`
WatcherFires ==
    /\ route.resolveTimeout
    /\ route' =
          IF route.current # route.lastResolvedParams
            THEN [route EXCEPT !.resolveTimeout = FALSE,
                    !.lastResolvedParams = route.current,
                    !.resolveError = "", !.playUrl = NoUrl,
                    !.resolvedList = << >>, !.awaiting = @ + 1]
            ELSE [route EXCEPT !.resolveTimeout = FALSE]
    /\ UNCHANGED frameRoute

\* the episode lists arrive: resolveEpisode finds the episode of the
\* current params and calls resolveSourcesImmediately
LanguagesFetched ==
    /\ route.awaiting > 0
    /\ route' = [route EXCEPT !.awaiting = @ - 1,
                              !.calls = Append(@, newCall(route))]
    /\ UNCHANGED frameRoute

\* the $fetch of candidate c of call n settles and the callback of map ends;
\* when it was the last one, Promise.allSettled resolves
ResolveResponse(n, c, ending) ==
    /\ n \in 1..Len(route.calls)
    /\ c \in 1..Len(route.calls[n].promises)
    /\ route.calls[n].promises[c] = "flight"
    /\ LET call == [route.calls[n] EXCEPT
                       !.promises[c] = IF ending = "urls" THEN "urls"
                                       ELSE "null"]
           settled == [route EXCEPT !.calls[n] = call]
           adopted == IF ending = "urls"
                        THEN adopt(settled, call,
                                   responseUrls(call.route)[c])
                        ELSE settled
       IN  route' =
              IF \A d \in 1..Len(call.promises) : call.promises[d] # "flight"
                THEN afterSettled(adopted, call)
                ELSE adopted
    /\ UNCHANGED frameRoute

NextRoute ==
    \/ Navigate
    \/ WatcherFires
    \/ LanguagesFetched
    \/ \E n \in 1..MaxRoutes, c \in 1..Len(responseUrls(1)),
          ending \in Endings :
           ResolveResponse(n, c, ending)

\* the watch page from its first route on
SpecRoute == InitRoute /\ [][NextRoute]_vars

----------------------------------------------------------------------------
\* RateLimiter of server/utils/rateLimit: the store, check and cleanup.
\* limiter.now is Date.now().

\* check allowing a call whatever the count is
check_NoLimit(l, identifier, path) ==
    LET key == getKey(identifier, path)
        entry == l.store[key]
        called(after, result, n) ==
            [l EXCEPT !.store[key] = after,
                      !.allowedInWindow[key] = n,
                      !.last = [called |-> TRUE, key |-> key,
                                before |-> entry, after |-> after,
                                result |-> result]]
    IN  IF entry = NoEntry \/ l.now > entry.resetTime
          THEN called([count |-> 1, resetTime |-> l.now + l.windowMs],
                      [allowed |-> TRUE, remaining |-> l.maxRequests - 1,
                       resetTime |-> l.now + l.windowMs], 1)
        ELSE called([entry EXCEPT !.count = @ + 1],
                    [allowed |-> TRUE,
                     remaining |-> l.maxRequests - (entry.count + 1),
                     resetTime |-> entry.resetTime],
                    l.allowedInWindow[key] + 1)

\* check(identifier, route, options)
check(l, identifier, path) ==
    LET key == getKey(identifier, path)
        entry == l.store[key]
        called(after, result, n) ==
            [l EXCEPT !.store[key] = after,
                      !.allowedInWindow[key] = n,
                      !.last = [called |-> TRUE, key |-> key,
                                before |-> entry, after |-> after,
                                result |-> result]]
    IN  IF entry = NoEntry \/ l.now > entry.resetTime
          THEN called([count |-> 1, resetTime |-> l.now + l.windowMs],
                      [allowed |-> TRUE, remaining |-> l.maxRequests - 1,
                       resetTime |-> l.now + l.windowMs], 1)
        ELSE IF entry.count >= l.maxRequests
          THEN called(entry,
                      [allowed |-> FALSE, remaining |-> 0,
                       resetTime |-> entry.resetTime],
                      l.allowedInWindow[key])
        ELSE called([entry EXCEPT !.count = @ + 1],
                    [allowed |-> TRUE,
                     remaining |-> l.maxRequests - (entry.count + 1),
                     resetTime |-> entry.resetTime],
                    l.allowedInWindow[key] + 1)

\* cleanup(): the expired entries are deleted
cleanup(l) ==
    [l EXCEPT !.store =
        [k \in LimiterKeys |->
            IF l.store[k] # NoEntry /\ l.now > l.store[k].resetTime
              THEN NoEntry ELSE l.store[k]]]

InitLimiter ==
    /\ ResolveIdle
    /\ FirstIdle
    /\ codec = NoCodec
    /\ packer = NoPacker
    /\ video = NoVideo
    /\ route = NoRoute
    /\ limiter \in {NewLimiter(m, w) : m \in 1..MaxLimit, w \in 1..MaxWindow}

\* a request of a client for a route: limiter.check(clientIP, route, options)
Check(identifier, path) ==
    /\ limiter' = check(limiter, identifier, path)
    /\ UNCHANGED frameLimiter

\* the callback of the cleanup interval
Cleanup ==
    /\ limiter' = cleanup(limiter)
    /\ UNCHANGED frameLimiter

\* time passes
ClockTick ==
    /\ limiter.now < MaxClock
    /\ limiter' = [limiter EXCEPT !.now = @ + 1]
    /\ UNCHANGED frameLimiter

NextLimiter ==
    \/ \E identifier \in Identifiers, r \in LimitedRoutes :
           Check(identifier, r)
    \/ Cleanup
    \/ ClockTick

\* the calls of check of two clients, the cleanup and the clock
SpecLimiter == InitLimiter /\ [][NextLimiter]_vars

----------------------------------------------------------------------------
\* Properties of the resolve endpoint

\* a value of the shape {ok, urls, message}
IsResolutionResult(x) == DOMAIN x = {"ok", "urls", "message"}

\* the handler runs that have produced their response
Done == {r \in Slots : req[r].pc = "done"}

\* C1: every entry of the cache is a result with ok=true and at least one
\* url, and a request writes to the cache only a resolution of that kind
C1_CacheHoldsOnlySuccesses ==
    /\ \A k \in DOMAIN cache :
          /\ cache[k].payload.ok
          /\ Len(cache[k].payload.urls) > 0
    /\ \A r \in Slots :
          req[r].sets > 0 =>
             /\ req[r].resolution.ok
             /\ Len(req[r].resolution.urls) > 0

\* C1 witness: the cache holds an entry while a request that met a 404, or
\* one whose resolution found no url, has ended without a cache.set
C1_Witness ==
    /\ DOMAIN cache # {}
    /\ \E r \in Done :
          /\ req[r].sets = 0
          /\ \/ req[r].status = 404
             \/ req[r].extracted /\ req[r].result.urls = << >>

\* C2: a step in which cache.get returns an entry ends the request with that
\* entry as its result, and performs no fetch, no body read, no extraction
\* and no cache.set
C2_HitReturnsCachedVerbatim ==
    [][ \A r \in Slots :
          ( /\ req[r].pc = "get"
            /\ cacheGet(cache, req[r].key, now) # NoResult
            /\ req'[r] # req[r]
            /\ req'[r].failed # "cache.get" )
          => /\ req'[r].pc = "done"
             /\ req'[r].result = cacheGet(cache, req[r].key, now)
             /\ req'[r].fetches = 0
             /\ ~req'[r].issued
             /\ ~req'[r].bodyRead
             /\ ~req'[r].extracted
             /\ req'[r].sets = 0
             /\ cache' = cache ]_vars

\* C2 witness: a request ended on a cache hit with a cached ok result
C2_Witness ==
    \E r \in Done :
       /\ req[r].hit
       /\ req[r].result.ok
       /\ req[r].key \in DOMAIN cache

\* C3: a request whose cache lookup happens when the entry of its key was
\* written at least the TTL ago misses the cache, issues its own upstream
\* fetch and does not answer from the cache
C3_ExpiredEntryIsRefetched ==
    \A r \in Slots :
       req[r].stale =>
          /\ ~req[r].hit
          /\ req[r].fetches = 1
          /\ req[r].issued

\* C3 witness: a request that found an expired entry ended with a freshly
\* resolved ok result
C3_Witness ==
    \E r \in Done :
       /\ req[r].stale
       /\ req[r].result.ok
       /\ req[r].fetches = 1
       /\ Len(req[r].result.urls) > 0

\* C4: an upstream HTTP request is issued only to a target with scheme http
\* or https whose host is not a blocked host
C4_NoFetchOfBlockedTarget ==
    \A r \in Slots :
       req[r].issued =>
          /\ parseUrl(req[r].url).scheme \in {"http", "https"}
          /\ parseUrl(req[r].url).host \notin BLOCKED_HOSTS

\* the steps whose exception reaches a catch block that answers with the
\* message of the error
CaughtSteps == {"referer", "cache.get", "cache.set", "fetch", "body"}

\* the result of a resolution of the same document when nothing is extracted
emptyExtraction(rq) ==
    assembleResult(DocNone, rq.url, rq.referer, 1).urls

\* C5 as stated: no exception escapes, every response has the shape
\* {ok, urls, message}, and after the failure of any step the response has
\* ok=false, no urls and the message of the error
C5_EveryFailureAnswersWithItsMessage ==
    \A r \in Done :
       /\ ~req[r].escaped
       /\ IsResolutionResult(req[r].result)
       /\ req[r].failed # "" =>
             /\ ~req[r].result.ok
             /\ req[r].result.urls = << >>
             /\ req[r].result.message.detail = req[r].errmsg

\* C5 amended: no exception escapes; every response to a request that is no
\* OPTIONS preflight has the shape {ok, urls, message}; a failure of referer
\* decoding, cache.get, cache.set, fetch or body read gives ok=false, no
\* urls and the message of the error; a timeout gives ok=false, no urls and
\* the fixed timeout message; an exception during extraction is swallowed
\* and the response is the one of a document in which nothing was found
C5_NoExceptionEscapes ==
    \A r \in Done :
       /\ ~req[r].escaped
       /\ req[r].query.method # "OPTIONS" =>
             IsResolutionResult(req[r].result)
       /\ req[r].failed \in CaughtSteps =>
             /\ ~req[r].result.ok
             /\ req[r].result.urls = << >>
             /\ req[r].result.message.detail = req[r].errmsg
       /\ req[r].failed = "timeout" =>
             req[r].result =
                Failure("Request timed out after ", "3 seconds")
       /\ req[r].failed = "extraction" =>
             /\ req[r].result.urls = emptyExtraction(req[r])
             /\ req[r].result.message.found = 0
             /\ req[r].sets = 0

\* C5 witness: requests have ended after a failed cache.set and after an
\* exception during extraction
C5_Witness ==
    /\ \E r \in Done : req[r].failed = "cache.set"
    /\ \E r \in Done : req[r].failed = "extraction"

\* C6: a resolution whose fetch completed and that found no source answers
\* {ok:false, urls:[], message:"no urls found"}, and a result with ok=true
\* has at least one source
C6_NoUrlsFoundIsNotOk ==
    \A r \in Done :
       IsResolutionResult(req[r].result) =>
          /\ req[r].result.ok => Len(req[r].result.urls) >= 1
          /\ (req[r].extracted /\ req[r].result.urls = << >>) =>
                req[r].result = Failure("no urls found", "")

\* C7: after a non-2xx upstream response the request has ended with
\* ok=false, no urls and the message "Failed to fetch: <status>
\* <statusText>", and has neither read the body nor run the extraction
C7_Non2xxFailsWithoutExtraction ==
    \A r \in Slots :
       (req[r].status # 0 /\ req[r].status \notin 200..299) =>
          /\ req[r].pc = "done"
          /\ req[r].result =
                Failure("Failed to fetch: ",
                        ToString(req[r].status) \o " "
                           \o statusText(req[r].status))
          /\ ~req[r].bodyRead
          /\ ~req[r].extracted
          /\ req[r].sets = 0

\* C7 witness: a request has ended on an upstream 404
C7_Witness ==
    \E r \in Done :
       /\ req[r].status = 404
       /\ req[r].issued
       /\ ~req[r].result.ok

\* C8: in every ok=true result the url of each source equals its directUrl
\* and is a url the validator accepts
C8_UrlIsTheValidatedUrl ==
    \A r \in Done :
       (IsResolutionResult(req[r].result) /\ req[r].result.ok) =>
          \A i \in 1..Len(req[r].result.urls) :
             /\ req[r].result.urls[i].url = req[r].result.urls[i].directUrl
             /\ validateUrl(req[r].result.urls[i].url).isValid

\* C9: no result has more than MAX_TOTAL_URLS sources
C9_AtMostMaxTotalUrls ==
    \A r \in Slots :
       IsResolutionResult(req[r].result) =>
          Len(req[r].result.urls) <= MAX_TOTAL_URLS

\* C10: once the timer has fired on the fetch in flight, the fetch is
\* aborted and the request has ended with ok=false and the message "Request
\* timed out after 3 seconds", having called fetch once
C10_TimeoutAbortsWithoutRetry ==
    \A r \in Slots :
       req[r].aborted =>
          /\ req[r].pc = "done"
          /\ req[r].failed = "timeout"
          /\ req[r].result =
                Failure("Request timed out after ", "3 seconds")
          /\ req[r].fetches = 1
          /\ ~req[r].bodyRead
          /\ req[r].sets = 0

\* C10 witness: a request has ended on the timer
C10_Witness ==
    \E r \in Done :
       /\ req[r].aborted
       /\ req[r].issued
       /\ req[r].result.message.text = "Request timed out after "

\* C11: while a resolution waits for the response or its body, no more than
\* the fetch timeout has passed since fetch was called, and while
\* extractVideoUrls runs (unpacking, deep pass, pattern scans), no more than
\* PROCESSING_TIMEOUT has passed since it was entered
C11_NoStageOutlivesItsBudget ==
    /\ run.phase \in {"fetch", "body"} => run.elapsed <= timeoutMs
    /\ run.phase \in {"decode", "deep", "scan"} =>
          run.elapsed - run.extractStart <= PROCESSING_TIMEOUT

\* the handler runs of a request that carries neither u64 nor url
Unaddressed ==
    {r \in Slots : /\ req[r].pc # "idle"
                   /\ req[r].query.u64 = NoParam
                   /\ req[r].query.url = NoParam}

\* the request went from the handler's entry to its response: it computed no
\* cache key, looked up and wrote no cache entry and called no fetch
AnsweredAtOnce(r) ==
    /\ req[r].pc = "done"
    /\ req[r].key = << >>
    /\ ~req[r].hit
    /\ ~req[r].stale
    /\ req[r].failed = ""
    /\ req[r].fetches = 0
    /\ ~req[r].issued
    /\ req[r].sets = 0

\* C12 as stated: a request without u64 and url is answered at once with
\* {ok:false, urls:[], message:"missing url or u64 parameter"}
C12_MissingParameterAnswer ==
    \A r \in Unaddressed :
       /\ AnsweredAtOnce(r)
       /\ req[r].result = Failure("missing url or u64 parameter", "")

\* C12 amended: a request without u64 and url that is no OPTIONS preflight
\* is answered at once with {ok:false, urls:[], message:"Missing url or u64
\* parameter"}, and the preflight with status 204 and an empty body
C12_MissingParameterAnswerAsSent ==
    \A r \in Unaddressed :
       /\ AnsweredAtOnce(r)
       /\ req[r].result =
             IF req[r].query.method = "OPTIONS"
               THEN [status |-> 204, body |-> ""]
               ELSE Failure("Missing url or u64 parameter", "")

\* C12 witness: a GET request without parameters has been answered while
\* the cache holds an entry
C12_Witness ==
    /\ DOMAIN cache # {}
    /\ \E r \in Unaddressed :
          /\ req[r].query.method = "GET"
          /\ req[r].pc = "done"
          /\ ~req[r].result.ok

\* the urls of the document of a request in the order in which
\* extractVideoUrls pushes them when it scans every pattern
extractionOrder(rq) == extractVideoUrls(Docs[rq.doc], rq.url, NPatterns + 1)

\* the place of url u in a sequence of urls that holds it
placeOf(u, order) == CHOOSE k \in 1..Len(order) : order[k] = u

\* the handler runs that answer with the result of their own extraction
Resolved ==
    {r \in Done : req[r].extracted /\ IsResolutionResult(req[r].result)}

\* C13: in the result of a resolution a source never follows one of lower
\* reliability, and of two sources of equal reliability the one extracted
\* first comes first
C13_SortedByReliabilityStable ==
    \A r \in Resolved :
       LET urls == req[r].result.urls
           order == extractionOrder(req[r])
       IN  \A i, j \in 1..Len(urls) :
              i < j =>
                 /\ urls[i].provider.reliability >= urls[j].provider.reliability
                 /\ urls[i].provider.reliability = urls[j].provider.reliability
                       => placeOf(urls[i].directUrl, order)
                             < placeOf(urls[j].directUrl, order)

\* C13 witness: a result lists two sources of the best provider first
\* although another source was extracted before them, and ends with two
\* sources of equal reliability
C13_Witness ==
    \E r \in Resolved :
       LET urls == req[r].result.urls
           order == extractionOrder(req[r])
       IN  /\ Len(urls) >= 4
           /\ urls[1].provider.reliability = urls[2].provider.reliability
           /\ urls[2].provider.reliability > urls[3].provider.reliability
           /\ urls[1].directUrl # order[1]
           /\ urls[Len(urls)].provider.reliability
                 = urls[Len(urls) - 1].provider.reliability

\* C14: a candidate validateUrl accepts is, without the white space and
\* quotes around it, non-empty and at most 2048 characters long, an absolute
\* url of scheme http or https, its hostname is none of localhost,
\* 127.0.0.1, 0.0.0.0 and ::1 and has no character outside [a-zA-Z0-9.-],
\* and it has no port or one of the ports 80, 443, 8080, 8443; a candidate
\* of scheme ftp or javascript or without scheme, and a candidate whose
\* hostname is localhost or 127.0.0.1, is rejected whatever its path
C14_AcceptsOnlySafeUrls ==
    cand.called =>
       LET c == cand.input IN
       /\ cand.verdict.isValid =>
             /\ c.len >= 1
             /\ c.len <= 2048
             /\ c.scheme # ""
             /\ protocolOf(c) \in {"http", "https"}
             /\ hostnameOf(c) \notin {"localhost", "127.0.0.1", "0.0.0.0", "::1"}
             /\ hostnameOf(c) \notin {"", "bad_host", "[::1]"}
             /\ c.port = 0 \/ c.port \in {80, 443, 8080, 8443}
       /\ protocolOf(c) \in {"ftp", "javascript", ""} => ~cand.verdict.isValid
       /\ hostnameOf(c) \in {"localhost", "127.0.0.1"} =>
             ~cand.verdict.isValid

\* C14 witness: validateUrl has accepted a quoted candidate with white
\* space around it, an upper-case scheme and the port 8443
C14_Witness ==
    /\ cand.called
    /\ cand.verdict.isValid
    /\ cand.input.ws
    /\ cand.input.q
    /\ cand.input.scheme = "HTTPS"
    /\ cand.input.port = 8443
    /\ cand.input.len = MAX_URL_LENGTH

\* C15: at most one upstream fetch of an anime id is in flight; a caller
\* that asks for an id while a fetch of it is in flight issues no fetch, and
\* once it and the caller that issued that fetch have settled, both have
\* the same outcome, the data or the error of that fetch
C15_CallersShareTheFetchInFlight ==
    /\ \A id \in AnimeIds : Cardinality(inFlight(id)) <= 1
    /\ \A c \in Callers :
          anime.calls[c].during # {} => ~anime.calls[c].issued
    /\ \A c, d \in Callers :
          ( /\ anime.calls[c].issued
            /\ anime.calls[c].awaits \in anime.calls[d].during
            /\ anime.calls[c].pc = "settled"
            /\ anime.calls[d].pc = "settled" )
          => /\ anime.calls[d].outcome = anime.calls[c].outcome
             /\ anime.calls[c].outcome =
                   [kind |-> anime.fetches[anime.calls[c].awaits].state,
                    value |-> anime.fetches[anime.calls[c].awaits].value]

\* C15 witness: two callers of the same id, the second having called while
\* the fetch of the first was in flight, have both settled with its error,
\* and one fetch of that id was issued
C15_Witness ==
    \E c, d \in Callers :
       /\ c # d
       /\ anime.calls[c].issued
       /\ anime.calls[d].during = {anime.calls[c].awaits}
       /\ anime.calls[c].pc = "settled"
       /\ anime.calls[d].pc = "settled"
       /\ anime.calls[d].outcome.kind = "rejected"
       /\ Cardinality({n \in 1..Len(anime.fetches) :
                          anime.fetches[n].id = anime.calls[c].id}) = 1

C17_FirstSuccessIsAdoptedAtOnce ==
    ( /\ player.fn \in {"resolveSourcesImmediately",
                         "resolveSourcesForLanguage"}
      /\ \E i \in 1..player.candidates : player.promises[i].state = "urls" )
    => \/ player.playUrl # 0
       \/ player.outcome = "returned"

\* the call has ended without a source: resolveSourcesImmediately has set
\* resolveError, resolveSourcesForLanguage has thrown
GaveUp ==
    /\ player.pc = "done"
    /\ player.outcome \in {"resolveError", "thrown"}

\* the candidates the parallel phase attempted
Attempted == {i \in 1..player.candidates : player.promises[i].state # "none"}

\* C18: when resolveSourcesImmediately or resolveSourcesForLanguage gives
\* up, every candidate of the parallel phase has been attempted once more,
\* one after the other; and every attempt of that sequential pass has a
\* timeout longer than the timeout of the parallel attempt
C18_OneFallbackPassWithLongerTimeout ==
    player.fn \in {"resolveSourcesImmediately", "resolveSourcesForLanguage"}
    => /\ GaveUp =>
             \A i \in Attempted :
                /\ player.fallback[i].state = "null"
                /\ player.fallback[i].tries = 1
       /\ Cardinality({a \in attemptsInFlight : a[1] = "fallback"}) <= 1
       /\ \A i \in 1..player.candidates :
             player.fallback[i].state # "none" =>
                player.fallback[i].timeout > player.promises[i].timeout

\* C19: when resolveSourcesImmediately or resolveSourcesForLanguage gives
\* up, every candidate url of the episode has been attempted and has
\* failed, and where the function has a fallback pass, again in that pass
C19_FailureOnlyAfterEveryCandidate ==
    ( /\ player.fn \in {"resolveSourcesImmediately",
                         "resolveSourcesForLanguage"}
      /\ GaveUp )
    => \A i \in 1..player.candidates :
          /\ player.promises[i].state = "null"
          /\ player.fn = "resolveSourcesForLanguage" =>
                player.fallback[i].state = "null"

\* C20: at any moment of a call at most 3 attempts are in flight, and the
\* $fetch of each of them was given a timeout
C20_AtMostThreeInFlight ==
    /\ Cardinality(attemptsInFlight) <= 3
    /\ \A i \in 1..player.candidates :
          /\ player.promises[i].state = "flight" =>
                player.promises[i].timeout > 0
          /\ player.fallback[i].state = "flight" =>
                player.fallback[i].timeout > 0

\* C20 witness: three of the four candidates of an episode are in flight in
\* the parallel phase, each with its timeout, and the fourth is not
C20_Witness ==
    /\ player.candidates = 4
    /\ player.pc = "parallel"
    /\ Cardinality(attemptsInFlight) = 3
    /\ \A a \in attemptsInFlight : player.promises[a[2]].timeout > 0
    /\ player.promises[4].state = "none"

\* C21: every call of a multi-candidate resolution ends, and until then no
\* candidate url has more than one $fetch in the parallel phase and one in
\* the fallback pass, however the attempts end (a timeout is one ending)
C21_BoundedAttemptsAndTermination ==
    /\ [](\A i \in 1..player.candidates :
             /\ player.promises[i].tries <= 1
             /\ player.fallback[i].tries <= 1)
    /\ <>(player.pc = "done")

\* resolveSourcesForLanguage has ended after each of its three parallel
\* attempts and each of its three fallback attempts timed out
C21_Witness ==
    /\ player.fn = "resolveSourcesForLanguage"
    /\ player.pc = "done"
    /\ player.outcome = "thrown"
    /\ player.candidates >= maxParallel
    /\ \A i \in 1..maxParallel :
          /\ player.promises[i].ending = "timeout"
          /\ player.promises[i].tries = 1
          /\ player.fallback[i].ending = "timeout"
          /\ player.fallback[i].tries = 1

----------------------------------------------------------------------------
\* Properties of the u64 parameter

\* C22: decodeBase64Url of the watch page's base64url encoding of a target
\* url is that target url, and the padded text it decodes has a length that
\* is a multiple of 4
C22_DecodeInvertsClientEncoding ==
    codec.phase = "decoded" =>
        /\ codec.url = codec.targetUrl
        /\ Len(codec.padded) % 4 = 0

\* a url with characters of several bytes was decoded from an encoding in
\* which + or / was replaced and padding was removed
C22_Witness ==
    /\ codec.phase = "decoded"
    /\ \E k \in 1..Len(codec.targetUrl) : codec.targetUrl[k] > 127
    /\ \E k \in 1..Len(codec.u64) : codec.u64[k] \in {"-", "_"}
    /\ Len(codec.padded) > Len(codec.u64)
    /\ codec.url = codec.targetUrl

----------------------------------------------------------------------------
\* Properties of decodeJavaScriptPacker

\* the end of the word of text that starts at place k
RECURSIVE wordEnd(_, _)
wordEnd(text, k) ==
    IF k + 1 <= Len(text) /\ isWordChar(text[k + 1])
      THEN wordEnd(text, k + 1) ELSE k

\* text from place k on (the start of a word or of a separator) with each
\* whole word that is the token of an index with a keyword replaced by that
\* keyword, in one pass
RECURSIVE substituted(_, _, _, _, _)
substituted(text, k, radix, count, keywords) ==
    IF k > Len(text) THEN << >>
    ELSE IF ~isWordChar(text[k])
      THEN <<text[k]>> \o substituted(text, k + 1, radix, count, keywords)
    ELSE LET e == wordEnd(text, k)
             word == SubSeq(text, k, e)
             hits == {i \in 0..(count - 1) :
                        hasKeyword(keywords, i) /\ digitsOf(i, radix) = word}
         IN  (IF hits = {} THEN word
              ELSE keywords[(CHOOSE i \in hits : TRUE) + 1])
                \o substituted(text, e + 1, radix, count, keywords)

\* C23: once the block is handled, the decoded text that was appended is the
\* payload with each whole-word token of an index with a keyword replaced
\* by that keyword, and nothing else changed
C23_DecodedIsWholeWordSubstitution ==
    packer.phase \in {"decoded", "caught", "returned"} =>
        /\ packer.appended
        /\ packer.decoded = substituted(packer.packed, 1, packer.radix,
                                        packer.count, packer.keywords)

----------------------------------------------------------------------------
\* Properties of the player's error handling

\* C24: a source is set up again at most MAX_RETRIES_PER_SOURCE times in a
\* row for recoverable errors of one error type
C24_AtMostTwoRetriesPerSource ==
    video.streak <= MAX_RETRIES_PER_SOURCE

\* C25: with two or more sources that all fail, the player comes to stop
\* with the message that every source failed
C25_StopsAfterAllSourcesFailed ==
    (video.sources >= 2) =>
        <>(video.phase = "stopped"
             /\ video.videoError = "Toutes les sources vidéo ont échoué")

----------------------------------------------------------------------------
\* Properties of the watch page across route changes

\* resolveEpisode has restarted for the current route
Restarted == route.lastResolvedParams = route.current /\ ~route.resolveTimeout

\* the route a source was resolved for
routeOfSource(u) == u[1]

C27_CurrentSourceIsThePlayingOne ==
    (route.playUrl # NoUrl /\ route.resolvedList # << >>) =>
        /\ route.currentSourceIndex + 1 <= Len(route.resolvedList)
        /\ route.resolvedList[route.currentSourceIndex + 1].url
              = route.playUrl.url

----------------------------------------------------------------------------
\* Properties of the cache key

\* C28: two requests with different (url, referer) pairs have different
\* cache keys, and the sources a request is answered with from the cache
\* are proxied with its own referer (its url when it has none)
C28_DistinctPairsDistinctKeys ==
    /\ \A r, s \in Slots :
          ( /\ req[r].key # << >>
            /\ req[s].key # << >>
            /\ <<req[r].url, req[r].referer>>
                  # <<req[s].url, req[s].referer>> )
          => req[r].key # req[s].key
    /\ \A r \in Slots :
          (req[r].hit /\ IsResolutionResult(req[r].result)) =>
             \A i \in 1..Len(req[r].result.urls) :
                req[r].result.urls[i].url.referer =
                   (IF req[r].referer # << >> THEN req[r].referer
                    ELSE req[r].url)

----------------------------------------------------------------------------
\* Properties of the rate limiter

\* C29: for each key at most maxRequests calls are allowed in a window, the
\* stored count is at most maxRequests, the remaining reported by a call is
\* not negative, and a denied call leaves the entry as it was
C29_WindowAllowsAtMostMaxRequests ==
    /\ \A k \in LimiterKeys :
          /\ limiter.allowedInWindow[k] <= limiter.maxRequests
          /\ limiter.store[k] # NoEntry =>
                limiter.store[k].count <= limiter.maxRequests
    /\ limiter.last.called =>
          /\ limiter.last.result.remaining >= 0
          /\ ~limiter.last.result.allowed =>
                limiter.last.after = limiter.last.before

\* a call was denied within a window in which maxRequests calls had been
\* allowed, at the very tick the window ends
C29_Witness ==
    /\ limiter.last.called
    /\ ~limiter.last.result.allowed
    /\ limiter.maxRequests > 1
    /\ limiter.allowedInWindow[limiter.last.key] = limiter.maxRequests
    /\ limiter.now = limiter.last.before.resetTime
    /\ limiter.store[limiter.last.key] = limiter.last.before

----------------------------------------------------------------------------
\* Properties of getAnimeDataCached after its fetch has settled

\* the upstream fetches of id that were fulfilled
fulfilledOf(id) ==
    {n \in 1..Len(anime.fetches) :
        anime.fetches[n].id = id /\ anime.fetches[n].state = "fulfilled"}

\* C30: pendingAnimeRequests never names a fetch that has settled; a failed
\* fetch stores nothing in animeCache; every caller attached to a failed
\* fetch receives its error; a caller is only ever handed a promise that was
\* in flight when it called, so a call after the failure issues a new fetch
C30_SettledFetchLeavesNoPendingEntry ==
    /\ \A id \in AnimeIds :
          /\ anime.pendingAnimeRequests[id] # 0 =>
                anime.fetches[anime.pendingAnimeRequests[id]].state = "pending"
          /\ fulfilledOf(id) = {} => anime.animeCache[id] = NoData
    /\ \A c \in Callers :
          /\ ( /\ anime.calls[c].pc = "settled"
               /\ anime.calls[c].awaits # 0
               /\ anime.fetches[anime.calls[c].awaits].state = "rejected" )
             => anime.calls[c].outcome =
                   [kind |-> "rejected",
                    value |-> anime.fetches[anime.calls[c].awaits].value]
          /\ ( /\ anime.calls[c].awaits # 0
               /\ ~anime.calls[c].issued )
             => anime.calls[c].awaits \in anime.calls[c].during
          /\ ( /\ anime.calls[c].pc # "idle"
               /\ anime.calls[c].during = {}
               /\ anime.calls[c].awaits # 0 )
             => anime.calls[c].issued

\* a fetch failed, the caller that issued it and a caller attached to it
\* received the error, and a third caller of the same id, calling after the
\* failure, issued a new fetch while nothing is cached for the id
C30_Witness ==
    \E c, d, e \in Callers :
       /\ anime.calls[c].issued
       /\ anime.calls[d].during = {anime.calls[c].awaits}
       /\ anime.calls[c].pc = "settled"
       /\ anime.calls[d].pc = "settled"
       /\ anime.calls[c].outcome.kind = "rejected"
       /\ anime.calls[d].outcome = anime.calls[c].outcome
       /\ anime.calls[e].id = anime.calls[c].id
       /\ anime.calls[e].issued
       /\ anime.calls[e].during = {}
       /\ anime.calls[e].awaits > anime.calls[c].awaits
       /\ anime.pendingAnimeRequests[anime.calls[c].id] = anime.calls[e].awaits
       /\ anime.animeCache[anime.calls[c].id] = NoData

============================================================================
